---- MODULE Spec2Model ----
(***************************************************************************)
(* Model of the stall map of nice-0816: the geometry resolver              *)
(* (stall-processor.ts, processStalls), the row template table             *)
(* (official-data.ts, locateStalls) and the navigation resolver            *)
(* (getNavigableStalls, getAdjacentStallId).                               *)
(*                                                                         *)
(* Strings are sequences of one-character strings ("A01" is                *)
(* <<"A","0","1">>), an absent field of a row is the empty string (every   *)
(* read of a row field in processStalls treats undefined and '' alike).    *)
(* Percentages are exact decimals counted in thousandths (87.8 is 87800),  *)
(* so toFixed(2) is a real rounding to a multiple of 10.                   *)
(***************************************************************************)
EXTENDS Integers, Sequences, FiniteSets, TLC

VARIABLES
    rawData,      \* processStalls: the rows handed to the call
    idx,          \* processStalls: position of rawData.forEach (1-based)
    stallsMap,    \* processStalls: the Map, as the sequence of its values in insertion order
    pc,           \* processStalls: "rows" (forEach running), "tags" (post-process), "done" (returned)
    allStalls,    \* navigation: the complete stall list
    searchTerm,   \* navigation: the value of the search input
    currentStall, \* navigation: the stall the query starts from
    direction,    \* navigation: 'up' | 'down' | 'left' | 'right', "" before a query
    navigable,    \* navigation: getNavigableStalls(allStalls, searchTerm)
    navResult,    \* navigation: <<>> for null, <<id>> for an id, after a query
    navPc,        \* navigation: "idle" | "filtered" | "answered" | "shown"
    modalStallId, \* modal: <<>> before the first openModal, <<id>> of the stall it shows
    modalNav,     \* modal: disabled and dataset.targetId of the four nav buttons
    modalHidden,  \* modal: elements.modal.classList.contains('hidden')
    isShownState, \* magnifier: isShownState
    wasMagnifierVisible  \* modal: modalState.wasMagnifierVisible

vars == <<rawData, idx, stallsMap, pc, allStalls, searchTerm, currentStall,
          direction, navigable, navResult, navPc, modalStallId, modalNav,
          modalHidden, isShownState, wasMagnifierVisible>>

procVars == <<rawData, idx, stallsMap, pc>>
navVars == <<allStalls, searchTerm, currentStall, direction, navigable, navResult, navPc>>
modalVars == <<modalStallId, modalNav>>
magVars == <<modalHidden, isShownState, wasMagnifierVisible>>

-----------------------------------------------------------------------------
(* JavaScript string and number primitives                                 *)

Digits == <<"0", "1", "2", "3", "4", "5", "6", "7", "8", "9">>

IsDigit(c) == \E i \in 1..10 : Digits[i] = c

DigitVal(c) == (CHOOSE i \in 1..10 : Digits[i] = c) - 1

IsSpace(c) == c = " "

RECURSIVE TrimStart(_)
TrimStart(s) ==
    IF s # <<>> /\ IsSpace(Head(s)) THEN TrimStart(Tail(s)) ELSE s

RECURSIVE TrimEnd(_)
TrimEnd(s) ==
    IF s # <<>> /\ IsSpace(s[Len(s)]) THEN TrimEnd(SubSeq(s, 1, Len(s) - 1)) ELSE s

\* String.prototype.trim
Trim(s) == TrimEnd(TrimStart(s))

UpperCase == <<"A", "B", "C", "D", "E", "F", "G", "H", "I", "J", "K", "L", "M",
               "N", "O", "P", "Q", "R", "S", "T", "U", "V", "W", "X", "Y", "Z">>
LowerCase == <<"a", "b", "c", "d", "e", "f", "g", "h", "i", "j", "k", "l", "m",
               "n", "o", "p", "q", "r", "s", "t", "u", "v", "w", "x", "y", "z">>

ToLowerChar(c) ==
    IF \E i \in 1..26 : UpperCase[i] = c
    THEN LowerCase[CHOOSE i \in 1..26 : UpperCase[i] = c]
    ELSE c

\* String.prototype.toLowerCase
ToLowerCase(s) == [i \in 1..Len(s) |-> ToLowerChar(s[i])]

\* String.prototype.includes
Includes(s, sub) ==
    \E i \in 0..(Len(s) - Len(sub)) : SubSeq(s, i + 1, i + Len(sub)) = sub

\* String.prototype.startsWith
StartsWith(s, p) == Len(p) <= Len(s) /\ SubSeq(s, 1, Len(p)) = p

\* id.substring(0, 1)
Substring01(s) == IF s = <<>> THEN <<>> ELSE <<s[1]>>

\* String.prototype.split(sep) for a one-character separator
RECURSIVE SplitOn(_, _, _)
SplitOn(s, sep, cur) ==
    IF s = <<>> THEN <<cur>>
    ELSE IF Head(s) = sep THEN <<cur>> \o SplitOn(Tail(s), sep, <<>>)
    ELSE SplitOn(Tail(s), sep, Append(cur, Head(s)))

Split(s, sep) == SplitOn(s, sep, <<>>)

RECURSIVE DigitRun(_, _, _)
DigitRun(s, acc, seen) ==
    IF s # <<>> /\ IsDigit(Head(s))
    THEN DigitRun(Tail(s), acc * 10 + DigitVal(Head(s)), TRUE)
    ELSE [ok |-> seen, val |-> acc]

\* parseInt(s, 10): leading white space, an optional sign, then the longest
\* run of digits; NaN (ok = FALSE) when there is no digit.
ParseInt(s) ==
    LET t == TrimStart(s)
        neg == t # <<>> /\ Head(t) = "-"
        body == IF t # <<>> /\ Head(t) \in {"-", "+"} THEN Tail(t) ELSE t
        r == DigitRun(body, 0, FALSE)
    IN  [ok |-> r.ok, val |-> IF neg THEN 0 - r.val ELSE r.val]

IsNaN(p) == ~p.ok

\* parseFloat(x.toFixed(2)) on thousandths: the nearest hundredth, ties away from zero
ToFixed2(x) ==
    IF x >= 0 THEN ((x + 5) \div 10) * 10
    ELSE 0 - (((0 - x) + 5) \div 10) * 10

\* JavaScript numbers are IEEE 754 doubles. A double d with 0.25 <= d < 1024,
\* or zero, is held as the whole number d * 2^54, little-endian in five limbs
\* of sixteen bits; the operators below compute on these as the machine does.
LimbBase == 2 ^ 16

BigOfInt(n) == <<n % LimbBase, (n \div LimbBase) % LimbBase, 0, 0, 0>>

RECURSIVE MulFrom(_, _, _, _)
MulFrom(a, m, i, carry) ==
    IF i > Len(a) THEN <<>>
    ELSE LET t == a[i] * m + carry
         IN  <<t % LimbBase>> \o MulFrom(a, m, i + 1, t \div LimbBase)

\* a * m for a factor m of at most 2^14
BigMulSmall(a, m) == MulFrom(a, m, 1, 0)

RECURSIVE BigMulPow2(_, _)
BigMulPow2(a, bits) ==
    IF bits = 0 THEN a
    ELSE IF bits >= 14 THEN BigMulPow2(BigMulSmall(a, 2 ^ 14), bits - 14)
    ELSE BigMulSmall(a, 2 ^ bits)

RECURSIVE AddFrom(_, _, _, _)
AddFrom(a, b, i, carry) ==
    IF i > Len(a) THEN <<>>
    ELSE LET t == a[i] + b[i] + carry
         IN  <<t % LimbBase>> \o AddFrom(a, b, i + 1, t \div LimbBase)

BigAdd(a, b) == AddFrom(a, b, 1, 0)

RECURSIVE SubFrom(_, _, _, _)
SubFrom(a, b, i, borrow) ==
    IF i > Len(a) THEN <<>>
    ELSE LET t == a[i] - b[i] - borrow
         IN  IF t < 0 THEN <<t + LimbBase>> \o SubFrom(a, b, i + 1, 1)
             ELSE <<t>> \o SubFrom(a, b, i + 1, 0)

\* a - b for a >= b
BigSub(a, b) == SubFrom(a, b, 1, 0)

RECURSIVE LeqFrom(_, _, _)
LeqFrom(a, b, i) ==
    IF i = 0 THEN TRUE
    ELSE IF a[i] # b[i] THEN a[i] < b[i]
    ELSE LeqFrom(a, b, i - 1)

\* a <= b
BigLeq(a, b) == LeqFrom(a, b, Len(a))

\* quotient and remainder of a by a divisor m of at most 2^14
RECURSIVE DivFrom(_, _, _, _, _)
DivFrom(a, m, i, rem, q) ==
    IF i = 0 THEN [q |-> q, r |-> rem]
    ELSE DivFrom(a, m, i - 1, (rem * LimbBase + a[i]) % m,
                 <<(rem * LimbBase + a[i]) \div m>> \o q)

BigDivSmall(a, m) == DivFrom(a, m, Len(a), 0, <<>>)

RECURSIVE BitsOf(_)
BitsOf(x) == IF x = 0 THEN 0 ELSE 1 + BitsOf(x \div 2)

RECURSIVE BitLenFrom(_, _)
BitLenFrom(a, i) ==
    IF i = 0 THEN 0
    ELSE IF a[i] # 0 THEN 16 * (i - 1) + BitsOf(a[i])
    ELSE BitLenFrom(a, i - 1)

BitLen(a) == BitLenFrom(a, Len(a))

\* round to nearest, ties to even, at the bit of weight p = 2^s, s < 16
RoundAt(a, p) ==
    IF (a[1] % p) * 2 > p \/ ((a[1] % p) * 2 = p /\ (a[1] \div p) % 2 = 1)
    THEN BigAdd([a EXCEPT ![1] = a[1] - (a[1] % p)], BigOfInt(p))
    ELSE [a EXCEPT ![1] = a[1] - (a[1] % p)]

RoundBits(a, len) == IF len <= 53 THEN a ELSE RoundAt(a, 2 ^ (len - 53))

\* the nearest double of an exact result: 53 significant bits
RoundTo53(a) == RoundBits(a, BitLen(a))

\* the quotient d.q, made the nearest whole number to the fraction, ties to even
RoundQuotient(d, m) ==
    IF d.r * 2 > m \/ (d.r * 2 = m /\ d.q[1] % 2 = 1)
    THEN BigAdd(d.q, BigOfInt(1)) ELSE d.q

Num64At(x, e) ==
    BigMulPow2(RoundQuotient(BigDivSmall(BigMulPow2(BigOfInt(x), 54 - e), 1000), 1000), e)

\* the double a decimal literal of x thousandths denotes, x = 0 or x >= 250
Num64(x) ==
    IF x = 0 THEN BigOfInt(0)
    ELSE Num64At(x, CHOOSE e \in 0..11 : 250 * 2 ^ e <= x /\ x < 250 * 2 ^ (e + 1))

\* a - b, a + b and a * n in doubles, for a >= b and whole n of at most 2^14
Sub64(a, b) == RoundTo53(BigSub(a, b))
Add64(a, b) == RoundTo53(BigAdd(a, b))
Mul64(a, n) == RoundTo53(BigMulSmall(a, n))

\* `${x}%`
Pct(x) == <<x, "%">>

Range(s) == {s[i] : i \in 1..Len(s)}

-----------------------------------------------------------------------------
(* Characters outside ASCII are one-character strings named by their code   *)
(* point; each is one UTF-16 code unit, as substring(0, 1) needs.           *)
Shu == "u9F20" \* 鼠
Niu == "u725B" \* 牛
Hu == "u864E" \* 虎
Tu == "u5154" \* 兔
Long == "u9F8D" \* 龍
She == "u86C7" \* 蛇
Ma == "u99AC" \* 馬
Yang == "u7F8A" \* 羊
Shang == "u5546" \* 商
Te == "u7279" \* 特
Hou == "u7334" \* 猴
Ji == "u96DE" \* 雞
Gou == "u72D7" \* 狗
Fan == "u7BC4" \* 範

\* UTF-16 code units of the characters, for string comparison (<=, >=)
CjkChars == <<Shu, Niu, Hu, Tu, Long, She, Ma, Yang, Shang, Te, Hou, Ji, Gou, Fan>>
CjkCodes == <<40736, 29275, 34382, 20820, 40845, 34503, 39340, 32650, 21830, 29305, 29492, 38622, 29399, 31684>>

CharCode(c) ==
    IF \E i \in 1..26 : UpperCase[i] = c THEN 64 + (CHOOSE i \in 1..26 : UpperCase[i] = c)
    ELSE IF \E i \in 1..26 : LowerCase[i] = c THEN 96 + (CHOOSE i \in 1..26 : LowerCase[i] = c)
    ELSE IF IsDigit(c) THEN 48 + DigitVal(c)
    ELSE IF \E i \in 1..Len(CjkChars) : CjkChars[i] = c
         THEN CjkCodes[CHOOSE i \in 1..Len(CjkChars) : CjkChars[i] = c]
    ELSE 32

\* official-data.ts: the row template table, percentages in thousandths
locateStalls == <<
    [id |-> "A", num |-> 1,
     coords |-> [top |-> 87800, left |-> 91000, width |-> 1050, height |-> 1400],
     border |-> [top |-> 86150, left |-> 52500, bottom |-> 89200, right |-> 92050],
     isGrouped |-> FALSE],
    [id |-> "B", num |-> 1,
     coords |-> [top |-> 83100, left |-> 91000, width |-> 1050, height |-> 1400],
     border |-> [top |-> 81450, left |-> 52500, bottom |-> 84500, right |-> 92050],
     isGrouped |-> FALSE],
    [id |-> "C", num |-> 1,
     coords |-> [top |-> 78400, left |-> 91000, width |-> 1050, height |-> 1400],
     border |-> [top |-> 76750, left |-> 52500, bottom |-> 79800, right |-> 92050],
     isGrouped |-> FALSE],
    [id |-> "D", num |-> 1,
     coords |-> [top |-> 73500, left |-> 91000, width |-> 1050, height |-> 1400],
     border |-> [top |-> 71850, left |-> 52500, bottom |-> 74900, right |-> 92050],
     isGrouped |-> FALSE],
    [id |-> "E", num |-> 1,
     coords |-> [top |-> 68500, left |-> 91000, width |-> 1050, height |-> 1400],
     border |-> [top |-> 66850, left |-> 52500, bottom |-> 69900, right |-> 92050],
     isGrouped |-> FALSE],
    [id |-> "F", num |-> 1,
     coords |-> [top |-> 63900, left |-> 91000, width |-> 1050, height |-> 1400],
     border |-> [top |-> 62250, left |-> 52500, bottom |-> 65300, right |-> 92050],
     isGrouped |-> FALSE],
    [id |-> "G", num |-> 1,
     coords |-> [top |-> 59100, left |-> 91000, width |-> 1050, height |-> 1400],
     border |-> [top |-> 57450, left |-> 52500, bottom |-> 60500, right |-> 92050],
     isGrouped |-> FALSE],
    [id |-> "H", num |-> 1,
     coords |-> [top |-> 54300, left |-> 91000, width |-> 1050, height |-> 1400],
     border |-> [top |-> 52650, left |-> 52500, bottom |-> 55700, right |-> 92050],
     isGrouped |-> FALSE],
    [id |-> "I", num |-> 1,
     coords |-> [top |-> 49500, left |-> 91000, width |-> 1050, height |-> 1400],
     border |-> [top |-> 47850, left |-> 52500, bottom |-> 50900, right |-> 92050],
     isGrouped |-> FALSE],
    [id |-> "J", num |-> 1,
     coords |-> [top |-> 44500, left |-> 91000, width |-> 1050, height |-> 1400],
     border |-> [top |-> 42850, left |-> 52500, bottom |-> 45900, right |-> 92050],
     isGrouped |-> FALSE],
    [id |-> "K", num |-> 1,
     coords |-> [top |-> 39600, left |-> 91000, width |-> 1050, height |-> 1400],
     border |-> [top |-> 37950, left |-> 52500, bottom |-> 41000, right |-> 92050],
     isGrouped |-> FALSE],
    [id |-> "L", num |-> 1,
     coords |-> [top |-> 34800, left |-> 91000, width |-> 1050, height |-> 1400],
     border |-> [top |-> 33150, left |-> 52500, bottom |-> 36200, right |-> 92050],
     isGrouped |-> FALSE],
    [id |-> "M", num |-> 1,
     coords |-> [top |-> 30100, left |-> 91000, width |-> 1050, height |-> 1400],
     border |-> [top |-> 28450, left |-> 52500, bottom |-> 31500, right |-> 92050],
     isGrouped |-> FALSE],
    [id |-> "N", num |-> 1,
     coords |-> [top |-> 25200, left |-> 91000, width |-> 1050, height |-> 1400],
     border |-> [top |-> 23550, left |-> 52500, bottom |-> 26600, right |-> 92050],
     isGrouped |-> FALSE],
    [id |-> "O", num |-> 1,
     coords |-> [top |-> 20400, left |-> 91000, width |-> 1050, height |-> 1400],
     border |-> [top |-> 18750, left |-> 52500, bottom |-> 21800, right |-> 92050],
     isGrouped |-> FALSE],
    [id |-> "P", num |-> 1,
     coords |-> [top |-> 15600, left |-> 91000, width |-> 1050, height |-> 1400],
     border |-> [top |-> 13950, left |-> 52500, bottom |-> 17000, right |-> 92050],
     isGrouped |-> FALSE],
    [id |-> "Q", num |-> 1,
     coords |-> [top |-> 10800, left |-> 91000, width |-> 1050, height |-> 1400],
     border |-> [top |-> 9150, left |-> 52500, bottom |-> 12200, right |-> 92050],
     isGrouped |-> FALSE],
    [id |-> "R", num |-> 1,
     coords |-> [top |-> 87800, left |-> 46300, width |-> 1050, height |-> 1400],
     border |-> [top |-> 86150, left |-> 7800, bottom |-> 89200, right |-> 47350],
     isGrouped |-> FALSE],
    [id |-> "S", num |-> 1,
     coords |-> [top |-> 83100, left |-> 46300, width |-> 1050, height |-> 1400],
     border |-> [top |-> 81450, left |-> 7800, bottom |-> 84500, right |-> 47350],
     isGrouped |-> FALSE],
    [id |-> "T", num |-> 1,
     coords |-> [top |-> 78400, left |-> 46300, width |-> 1050, height |-> 1400],
     border |-> [top |-> 76750, left |-> 7800, bottom |-> 79800, right |-> 47350],
     isGrouped |-> FALSE],
    [id |-> "U", num |-> 1,
     coords |-> [top |-> 73500, left |-> 46300, width |-> 1050, height |-> 1400],
     border |-> [top |-> 71850, left |-> 7800, bottom |-> 74900, right |-> 47350],
     isGrouped |-> FALSE],
    [id |-> "V", num |-> 1,
     coords |-> [top |-> 68700, left |-> 46300, width |-> 1050, height |-> 1400],
     border |-> [top |-> 67050, left |-> 7800, bottom |-> 70100, right |-> 47350],
     isGrouped |-> FALSE],
    [id |-> "W", num |-> 1,
     coords |-> [top |-> 63900, left |-> 46300, width |-> 1050, height |-> 1400],
     border |-> [top |-> 62250, left |-> 7800, bottom |-> 65300, right |-> 47350],
     isGrouped |-> FALSE],
    [id |-> "X", num |-> 1,
     coords |-> [top |-> 59100, left |-> 46300, width |-> 1050, height |-> 1400],
     border |-> [top |-> 57450, left |-> 7800, bottom |-> 60500, right |-> 47350],
     isGrouped |-> FALSE],
    [id |-> "Y", num |-> 1,
     coords |-> [top |-> 54300, left |-> 46300, width |-> 1050, height |-> 1400],
     border |-> [top |-> 52650, left |-> 7800, bottom |-> 55700, right |-> 47350],
     isGrouped |-> FALSE],
    [id |-> "Z", num |-> 1,
     coords |-> [top |-> 49500, left |-> 46300, width |-> 1050, height |-> 1400],
     border |-> [top |-> 47850, left |-> 7800, bottom |-> 50900, right |-> 47350],
     isGrouped |-> FALSE],
    [id |-> Shu, num |-> 1,
     coords |-> [top |-> 44500, left |-> 46300, width |-> 1050, height |-> 1400],
     border |-> [top |-> 42850, left |-> 7800, bottom |-> 45900, right |-> 47350],
     isGrouped |-> FALSE],
    [id |-> Niu, num |-> 1,
     coords |-> [top |-> 39600, left |-> 46300, width |-> 1050, height |-> 1400],
     border |-> [top |-> 37950, left |-> 7800, bottom |-> 41000, right |-> 47350],
     isGrouped |-> FALSE],
    [id |-> Hu, num |-> 1,
     coords |-> [top |-> 34900, left |-> 46300, width |-> 1050, height |-> 1400],
     border |-> [top |-> 33250, left |-> 7800, bottom |-> 36300, right |-> 47350],
     isGrouped |-> FALSE],
    [id |-> Tu, num |-> 1,
     coords |-> [top |-> 30100, left |-> 46300, width |-> 1050, height |-> 1400],
     border |-> [top |-> 28450, left |-> 7800, bottom |-> 31500, right |-> 47350],
     isGrouped |-> FALSE],
    [id |-> Long, num |-> 1,
     coords |-> [top |-> 25200, left |-> 46300, width |-> 1050, height |-> 1400],
     border |-> [top |-> 23550, left |-> 7800, bottom |-> 26600, right |-> 47350],
     isGrouped |-> FALSE],
    [id |-> She, num |-> 1,
     coords |-> [top |-> 20400, left |-> 46300, width |-> 1050, height |-> 1400],
     border |-> [top |-> 18750, left |-> 7800, bottom |-> 21800, right |-> 47350],
     isGrouped |-> FALSE],
    [id |-> Ma, num |-> 1,
     coords |-> [top |-> 15600, left |-> 46300, width |-> 1050, height |-> 1400],
     border |-> [top |-> 13950, left |-> 7800, bottom |-> 17000, right |-> 47350],
     isGrouped |-> FALSE],
    [id |-> Yang, num |-> 1,
     coords |-> [top |-> 10800, left |-> 46300, width |-> 1050, height |-> 1400],
     border |-> [top |-> 9150, left |-> 7800, bottom |-> 12200, right |-> 47350],
     isGrouped |-> FALSE],
    [id |-> Hou, num |-> 1,
     coords |-> [top |-> 73500, left |-> 4500, width |-> 1100, height |-> 1440],
     border |-> [top |-> 52700, left |-> 4500, bottom |-> 74900, right |-> 5550],
     isGrouped |-> TRUE],
    [id |-> Ji, num |-> 1,
     coords |-> [top |-> 43700, left |-> 4500, width |-> 1100, height |-> 1440],
     border |-> [top |-> 23000, left |-> 4500, bottom |-> 45600, right |-> 5550],
     isGrouped |-> TRUE],
    [id |-> Gou, num |-> 1,
     coords |-> [top |-> 18200, left |-> 4500, width |-> 1100, height |-> 1440],
     border |-> [top |-> 7500, left |-> 4500, bottom |-> 19800, right |-> 5550],
     isGrouped |-> TRUE],
    [id |-> Te, num |-> 1,
     coords |-> [top |-> 84400, left |-> 4150, width |-> 1800, height |-> 2410],
     border |-> [top |-> 77150, left |-> 4150, bottom |-> 87200, right |-> 5750],
     isGrouped |-> TRUE],
    [id |-> Shang, num |-> 1,
     coords |-> [top |-> 89500, left |-> 4150, width |-> 1800, height |-> 2410],
     border |-> [top |-> 87500, left |-> 4150, bottom |-> 91500, right |-> 5750],
     isGrouped |-> TRUE],
    [id |-> Fan, num |-> 1,
     coords |-> [top |-> 500, left |-> 91000, width |-> 5000, height |-> 5000],
     border |-> [top |-> 500, left |-> 86000, bottom |-> 5500, right |-> 96000],
     isGrouped |-> FALSE]
>>

-----------------------------------------------------------------------------
(* stall-processor.ts                                                      *)

Xuan == "u5BA3" \* 宣
Chuan == "u50B3" \* 傳
Che == "u8ECA" \* 車

\* Number to decimal string, as a template literal formats a non-negative integer
RECURSIVE NumToStr(_)
NumToStr(n) ==
    IF n < 10 THEN <<Digits[n + 1]>>
    ELSE NumToStr(n \div 10) \o <<Digits[(n % 10) + 1]>>

\* a % b of JavaScript for b > 0: the sign of the result is the dividend's
JsRem(a, b) == IF a >= 0 THEN a % b ELSE 0 - ((0 - a) % b)

\* locateStallMap.get(line): <<>> for undefined, <<template>> otherwise
locateStallMapGet(line) ==
    LET hits == SelectSeq(locateStalls, LAMBDA t : <<t.id>> = line)
    IN  IF hits = <<>> THEN <<>> ELSE <<hits[Len(hits)]>>

parsePromoLinks(promoUser, linksStr) ==
    IF linksStr = <<>> THEN <<>>
    ELSE LET parts == Split(linksStr, ";")
             links == [i \in 1..Len(parts) |->
                          [text |-> promoUser \o <<"-", Xuan, Chuan, Che>> \o NumToStr(i),
                           href |-> Trim(parts[i])]]
         IN  SelectSeq(links, LAMBDA l : l.text # <<>> /\ l.href # <<>>)

parsePromoTags(tagsStr) ==
    IF tagsStr = <<>> THEN <<>>
    ELSE LET parts == Split(tagsStr, ";")
             trimmed == [i \in 1..Len(parts) |-> Trim(parts[i])]
         IN  SelectSeq(trimmed, LAMBDA t : t # <<>>)

\* line !== '狗' && line !== '雞' && line !== '猴' && line !== '特' && line !== '商'
IsHorizontalLine(line) ==
    line # <<Gou>> /\ line # <<Ji>> /\ line # <<Hou>> /\ line # <<Te>> /\ line # <<Shang>>

\* HorizontalGap with the middle break starting one unit early
HorizontalGap_OffByOne(num) ==
    IF num >= 24 /\ num <= 48 THEN 1750
    ELSE IF num <= 12 \/ num >= 61 THEN 0
    ELSE 900

\* the gap of the horizontal scheme
HorizontalGap(num) ==
    IF num > 24 /\ num <= 48 THEN 1750
    ELSE IF num <= 12 \/ num >= 61 THEN 0
    ELSE 900

\* HorizontalCoords with the span shift applied on both tiers
HorizontalCoords_ShiftBothTiers(coordsTemplate, num, stallCnt) ==
    LET numInBlock == IF num > 36 THEN 72 - num ELSE num
        gapSize == HorizontalGap(num)
        top == IF num > 36 THEN coordsTemplate.top - coordsTemplate.height - 250
               ELSE coordsTemplate.top
        left == (IF num > 36
                 THEN coordsTemplate.left - (JsRem(numInBlock, 72) * coordsTemplate.width) - gapSize
                 ELSE coordsTemplate.left - ((numInBlock - 1) * coordsTemplate.width) - gapSize)
                - (IF stallCnt > 1 THEN (stallCnt - 1) * coordsTemplate.width ELSE 0)
    IN  [top |-> top,
         left |-> ToFixed2(left),
         width |-> coordsTemplate.width * stallCnt,
         height |-> coordsTemplate.height]

\* the horizontal branch: the numeric rect of unit num with span stallCnt
HorizontalCoords(coordsTemplate, num, stallCnt) ==
    LET numInBlock == IF num > 36 THEN 72 - num ELSE num
        gapSize == HorizontalGap(num)
        top == IF num > 36 THEN coordsTemplate.top - coordsTemplate.height - 250
               ELSE coordsTemplate.top
        left == IF num > 36
                THEN coordsTemplate.left - (JsRem(numInBlock, 72) * coordsTemplate.width) - gapSize
                ELSE (coordsTemplate.left - ((numInBlock - 1) * coordsTemplate.width) - gapSize)
                     - (IF stallCnt > 1 THEN (stallCnt - 1) * coordsTemplate.width ELSE 0)
    IN  [top |-> top,
         left |-> ToFixed2(left),
         width |-> coordsTemplate.width * stallCnt,
         height |-> coordsTemplate.height]

\* the horizontal branch in doubles, for the lines and units whose rect values
\* are at least 0.25: top is left unrounded, left is parseFloat(left.toFixed(2))
HorizontalCoords64(coordsTemplate, num, stallCnt) ==
    [top |-> IF num > 36
             THEN Sub64(Sub64(Num64(coordsTemplate.top), Num64(coordsTemplate.height)),
                        Num64(250))
             ELSE Num64(coordsTemplate.top),
     left |-> Num64(HorizontalCoords(coordsTemplate, num, stallCnt).left),
     width |-> Mul64(Num64(coordsTemplate.width), stallCnt),
     height |-> Num64(coordsTemplate.height)]

\* VerticalRemap with the thresholds of one line used for all three
VerticalRemap_SharedThreshold(line, num) ==
    IF line = <<Gou>> \/ line = <<Ji>> \/ line = <<Hou>> THEN
        IF num >= 4 /\ num < 16 THEN [tempNum |-> 3, gapSize |-> 800]
        ELSE IF num >= 16 THEN [tempNum |-> num - 12, gapSize |-> 400]
        ELSE [tempNum |-> num, gapSize |-> 0]
    ELSE [tempNum |-> num, gapSize |-> 0]

\* the remap of the vertical branch: tempNum and gapSize of unit num
VerticalRemap(line, num) ==
    IF line = <<Gou>> THEN
        IF num >= 4 /\ num < 16 THEN [tempNum |-> 3, gapSize |-> 800]
        ELSE IF num >= 16 THEN [tempNum |-> num - 12, gapSize |-> 400]
        ELSE [tempNum |-> num, gapSize |-> 0]
    ELSE IF line = <<Ji>> THEN
        IF num >= 4 /\ num < 21 THEN [tempNum |-> 3, gapSize |-> 800]
        ELSE IF num >= 21 THEN [tempNum |-> num - 17, gapSize |-> 400]
        ELSE [tempNum |-> num, gapSize |-> 0]
    ELSE IF line = <<Hou>> THEN
        IF num >= 4 /\ num < 23 THEN [tempNum |-> 3, gapSize |-> 800]
        ELSE IF num >= 23 THEN [tempNum |-> num - 19, gapSize |-> 500]
        ELSE [tempNum |-> num, gapSize |-> 0]
    ELSE [tempNum |-> num, gapSize |-> 0]

\* VerticalCoords stacking downwards from the anchor
VerticalCoords_Downward(coordsTemplate, line, num, stallCnt) ==
    LET r == VerticalRemap(line, num)
        top == (coordsTemplate.top + coordsTemplate.height * (r.tempNum - 1) + r.gapSize)
               + (IF stallCnt > 1 THEN (stallCnt - 1) * coordsTemplate.height ELSE 0)
    IN  [top |-> ToFixed2(top),
         left |-> coordsTemplate.left,
         width |-> coordsTemplate.width,
         height |-> coordsTemplate.height * stallCnt]

\* the vertical branch: the numeric rect of unit num with span stallCnt
VerticalCoords(coordsTemplate, line, num, stallCnt) ==
    LET r == VerticalRemap(line, num)
        top == (coordsTemplate.top - coordsTemplate.height * (r.tempNum - 1) - r.gapSize)
               - (IF stallCnt > 1 THEN (stallCnt - 1) * coordsTemplate.height ELSE 0)
    IN  [top |-> ToFixed2(top),
         left |-> coordsTemplate.left,
         width |-> coordsTemplate.width,
         height |-> coordsTemplate.height * stallCnt]

\* the string rect: every field of the numeric rect followed by '%'
FormatCoords(n) ==
    [top |-> Pct(n.top), left |-> Pct(n.left), width |-> Pct(n.width), height |-> Pct(n.height)]

\* parseInt(rawStall.stallCnt, 10) || 1
ParseStallCnt(s) ==
    LET p == ParseInt(s) IN IF IsNaN(p) \/ p.val = 0 THEN 1 ELSE p.val

\* rawStall.id || rawStall.stallId
RowId(rawStall) == IF rawStall.id # <<>> THEN rawStall.id ELSE rawStall.stallId

\* NewStallEntry without the template and NaN test: every row with an id
\* creates an entry, placed by the first template when its line has none
NewStallEntry_NoSkip(rawStall, id) ==
    LET num == ParseInt(rawStall.num)
        stallCnt == ParseStallCnt(rawStall.stallCnt)
        myNumericCoords == HorizontalCoords(locateStalls[1].coords, num.val, stallCnt)
    IN  <<[id |-> id,
           num |-> IF IsNaN(num) THEN "NaN" ELSE num.val,
           stallCnt |-> stallCnt,
           coords |-> FormatCoords(myNumericCoords),
           numericCoords |-> myNumericCoords,
           stallTitle |-> IF rawStall.stallTitle # <<>> THEN rawStall.stallTitle
                          ELSE <<"N", "/", "A">>,
           stallImg |-> rawStall.stallImg,
           stallLink |-> rawStall.stallLink,
           promoData |-> <<>>,
           promoTags |-> <<>>]>>

\* the base StallData object of a row that creates one: <<>> when the position
\* cannot be calculated (no template, or NaN), <<stallEntry>> otherwise
NewStallEntry(rawStall, id) ==
    LET line == Substring01(id)
        num == ParseInt(rawStall.num)
        stallCnt == ParseStallCnt(rawStall.stallCnt)
        locateStall == locateStallMapGet(line)
    IN  IF locateStall = <<>> \/ IsNaN(num) THEN <<>>
        ELSE LET coordsTemplate == locateStall[1].coords
                 myNumericCoords ==
                     IF IsHorizontalLine(line)
                     THEN HorizontalCoords(coordsTemplate, num.val, stallCnt)
                     ELSE VerticalCoords(coordsTemplate, line, num.val, stallCnt)
             IN  <<[id |-> id,
                    num |-> num.val,
                    stallCnt |-> stallCnt,
                    coords |-> FormatCoords(myNumericCoords),
                    numericCoords |-> myNumericCoords,
                    stallTitle |-> IF rawStall.stallTitle # <<>> THEN rawStall.stallTitle
                                   ELSE <<"N", "/", "A">>,
                    stallImg |-> rawStall.stallImg,
                    stallLink |-> rawStall.stallLink,
                    promoData |-> <<>>,
                    promoTags |-> <<>>]>>

\* the PromoStall object of a row
NewPromo(rawStall, id) ==
    [stallId |-> id,
     promoUser |-> rawStall.promoUser,
     promoAvatar |-> rawStall.promoAvatar,
     promoHTML |-> rawStall.promoHTML,
     promoLinks |-> parsePromoLinks(rawStall.promoUser, rawStall.promoLinks),
     promoTags |-> parsePromoTags(rawStall.promoTags)]

\* MapIndex with a lookup that never finds the entry
MapIndex_NeverFound(map, id) == 0

\* stallsMap.get(id): 0 for undefined, else the position of the entry
MapIndex(map, id) ==
    IF \E i \in 1..Len(map) : map[i].id = id
    THEN CHOOSE i \in 1..Len(map) : map[i].id = id
    ELSE 0

\* PushPromo that assigns the promotion list instead of appending to it
PushPromo_Overwrite(map, k, rawStall, id) ==
    IF rawStall.promoUser # <<>>
    THEN [map EXCEPT ![k].promoData = <<NewPromo(rawStall, id)>>]
    ELSE map

\* the promotion aggregation of one row on the entry at position k
PushPromo(map, k, rawStall, id) ==
    IF rawStall.promoUser # <<>>
    THEN [map EXCEPT ![k].promoData = Append(@, NewPromo(rawStall, id))]
    ELSE map

\* ProcessOne that derives the base object again from a later row of the id
ProcessOne_Rederive(map, rawStall) ==
    LET id == RowId(rawStall)
        k == MapIndex(map, id)
        e == NewStallEntry(rawStall, id)
    IN  IF id = <<>> THEN map
        ELSE IF k # 0
             THEN IF e = <<>> THEN PushPromo(map, k, rawStall, id)
                  ELSE PushPromo([map EXCEPT ![k] = [e[1] EXCEPT !.promoData = map[k].promoData]],
                                 k, rawStall, id)
        ELSE IF e = <<>> THEN map
             ELSE PushPromo(Append(map, e[1]), Len(map) + 1, rawStall, id)

\* one call of the rawData.forEach callback on the Map
ProcessOne(map, rawStall) ==
    LET id == RowId(rawStall)
        k == MapIndex(map, id)
    IN  IF id = <<>> THEN map
        ELSE IF k # 0 THEN PushPromo(map, k, rawStall, id)
        ELSE LET e == NewStallEntry(rawStall, id)
             IN  IF e = <<>> THEN map
                 ELSE PushPromo(Append(map, e[1]), Len(map) + 1, rawStall, id)

\* UniqueInOrder that keeps every occurrence
UniqueInOrder_NoDedup(s) == s

\* Array.from(new Set(tags)): first occurrences, in order
RECURSIVE UniqueInOrder(_)
UniqueInOrder(s) ==
    IF s = <<>> THEN <<>>
    ELSE LET init == UniqueInOrder(SubSeq(s, 1, Len(s) - 1))
             x == s[Len(s)]
         IN  IF \E i \in 1..Len(init) : init[i] = x THEN init ELSE Append(init, x)

RECURSIVE Concat(_)
Concat(ss) == IF ss = <<>> THEN <<>> ELSE Head(ss) \o Concat(Tail(ss))

\* the post-process pass on one stall
CollectStallTags(stall) ==
    [stall EXCEPT !.promoTags =
        UniqueInOrder(Concat([i \in 1..Len(stall.promoData) |-> stall.promoData[i].promoTags]))]

RECURSIVE ForEachRow(_, _)
ForEachRow(map, rows) ==
    IF rows = <<>> THEN map ELSE ForEachRow(ProcessOne(map, Head(rows)), Tail(rows))

\* the value returned by a whole call
processStalls(rows) ==
    LET map == ForEachRow(<<>>, rows)
    IN  [i \in 1..Len(map) |-> CollectStallTags(map[i])]

\* rawData.forEach: one row
ProcessRow ==
    /\ pc = "rows"
    /\ idx <= Len(rawData)
    /\ stallsMap' = ProcessOne(stallsMap, rawData[idx])
    /\ idx' = idx + 1
    /\ UNCHANGED <<rawData, pc, navVars, modalVars, magVars>>

\* stallsMap.forEach (tags) and the return of Array.from(stallsMap.values())
CollectTags ==
    /\ pc = "rows"
    /\ idx > Len(rawData)
    /\ stallsMap' = [i \in 1..Len(stallsMap) |-> CollectStallTags(stallsMap[i])]
    /\ pc' = "done"
    /\ UNCHANGED <<rawData, idx, navVars, modalVars, magVars>>

\* CallAgain that goes on with the map of the call before
CallAgain_KeepMap ==
    /\ pc = "done"
    /\ allStalls = <<>>
    /\ allStalls' = stallsMap
    /\ idx' = 1
    /\ pc' = "rows"
    /\ UNCHANGED <<rawData, stallsMap, searchTerm, currentStall, direction, navigable,
                   navResult, navPc, modalVars, magVars>>

\* the caller keeps the returned array and calls processStalls on the same
\* rows once more: a new Map, the forEach from the first row
CallAgain ==
    /\ pc = "done"
    /\ allStalls = <<>>
    /\ allStalls' = stallsMap
    /\ stallsMap' = <<>>
    /\ idx' = 1
    /\ pc' = "rows"
    /\ UNCHANGED <<rawData, searchTerm, currentStall, direction, navigable,
                   navResult, navPc, modalVars, magVars>>

-----------------------------------------------------------------------------
(* navigation: allRowIds, getNavigableStalls, getAdjacentStallId           *)

\* allRowIds with two of the vertical lines exchanged
allRowIds_HouJiSwapped ==
    <<"A", "B", "C", "D", "E", "F", "G", "H", "I", "J", "K", "L", "M",
      "N", "O", "P", "Q", "R", "S", "T", "U", "V", "W", "X", "Y", "Z",
      Shu, Niu, Hu, Tu, Long, She, Ma, Yang, Shang, Te, Ji, Hou, Gou>>

\* The definitive order of all rows on the map
allRowIds == <<"A", "B", "C", "D", "E", "F", "G", "H", "I", "J", "K", "L", "M",
               "N", "O", "P", "Q", "R", "S", "T", "U", "V", "W", "X", "Y", "Z",
               Shu, Niu, Hu, Tu, Long, She, Ma, Yang, Shang, Te, Hou, Ji, Gou>>

\* allRowIds.indexOf(line): 0-based, -1 when absent
RowIndexOf(line) ==
    IF \E i \in 1..Len(allRowIds) : <<allRowIds[i]>> = line
    THEN (CHOOSE i \in 1..Len(allRowIds) : <<allRowIds[i]>> = line) - 1
    ELSE 0 - 1

\* the filter predicate of getNavigableStalls on one stall
MatchesSearch(stall, normalizedSearch) ==
    LET hasPromoUserMatch ==
            \E i \in 1..Len(stall.promoData) :
                Includes(ToLowerCase(stall.promoData[i].promoUser), normalizedSearch)
    IN  \/ Includes(ToLowerCase(stall.id), normalizedSearch)
        \/ Includes(ToLowerCase(stall.stallTitle), normalizedSearch)
        \/ hasPromoUserMatch

\* isMatch of the search input handler for a stall, value the input's value
SearchInputIsMatch(stall, value) ==
    LET term == Trim(ToLowerCase(value))
        hasPromoUserMatch ==
            \E i \in 1..Len(stall.promoData) :
                Includes(ToLowerCase(stall.promoData[i].promoUser), term)
    IN  /\ term # <<>>
        /\ \/ Includes(ToLowerCase(stall.id), term)
           \/ Includes(ToLowerCase(stall.stallTitle), term)
           \/ hasPromoUserMatch

\* isMatch of an item of the modal's vertical stall list
VerticalListIsMatch(s, value) ==
    LET term == Trim(ToLowerCase(value))
        hasPromoUserMatch ==
            \E i \in 1..Len(s.promoData) : Includes(ToLowerCase(s.promoData[i].promoUser), term)
        hasTagMatch ==
            \E i \in 1..Len(s.promoTags) : Includes(ToLowerCase(s.promoTags[i]), term)
    IN  /\ term # <<>>
        /\ \/ Includes(ToLowerCase(s.id), term)
           \/ Includes(ToLowerCase(s.stallTitle), term)
           \/ hasPromoUserMatch
           \/ hasTagMatch

\* getNavigableStalls that treats a blank term like any other: nothing matches
getNavigableStalls_BlankNone(stalls, term) ==
    LET normalizedSearch == Trim(ToLowerCase(term))
    IN  IF normalizedSearch = <<>> THEN <<>>
        ELSE SelectSeq(stalls, LAMBDA st : MatchesSearch(st, normalizedSearch))

getNavigableStalls(stalls, term) ==
    LET normalizedSearch == Trim(ToLowerCase(term))
    IN  IF normalizedSearch = <<>> THEN stalls
        ELSE SelectSeq(stalls, LAMBDA st : MatchesSearch(st, normalizedSearch))

\* Array.prototype.find: <<>> for undefined, <<element>> for the first match
FindFirst(hits) == IF hits = <<>> THEN <<>> ELSE <<hits[1]>>

\* ['狗', '雞', '猴', '特', '商'].includes(currentLine)
IsVerticalRow(line) == line \in {<<Gou>>, <<Ji>>, <<Hou>>, <<Te>>, <<Shang>>}

\* direction === 'right' && currentLine >= 'A' && currentLine <= 'Q' && (num 1 or 72)
RightBoundary(currentLine, currentNum, dir) ==
    /\ dir = "right"
    /\ currentLine # <<>>
    /\ CharCode(currentLine[1]) >= CharCode("A")
    /\ CharCode(currentLine[1]) <= CharCode("Q")
    /\ (currentNum = 1 \/ currentNum = 72)

\* DirectionStep without the mirroring of units 37..72
DirectionStep_NoMirror(currentLine, currentNum, dir) ==
    IF dir # "right" THEN 1 ELSE 0 - 1

\* the step of the unit number for left/right
DirectionStep(currentLine, currentNum, dir) ==
    LET horizNext == dir # "right"
        isReversed == ~IsVerticalRow(currentLine) /\ ~(currentNum >= 1 /\ currentNum <= 36)
        step == IF horizNext THEN 1 ELSE 0 - 1
    IN  IF isReversed THEN 0 - step ELSE step

\* WalkRow that matches the unit number on any line
RECURSIVE WalkRow_AnyLine(_, _, _, _)
WalkRow_AnyLine(nav, currentLine, targetNum, directionStep) ==
    IF ~(targetNum >= 1 /\ targetNum <= 72) THEN <<>>
    ELSE LET found == FindFirst(SelectSeq(nav, LAMBDA st : st.num = targetNum))
         IN  IF found # <<>> THEN <<found[1].id>>
             ELSE WalkRow_AnyLine(nav, currentLine, targetNum + directionStep, directionStep)

\* WalkRow whose range ends one unit late
RECURSIVE WalkRow_Through73(_, _, _, _)
WalkRow_Through73(nav, currentLine, targetNum, directionStep) ==
    IF ~(targetNum >= 1 /\ targetNum <= 73) THEN <<>>
    ELSE LET found == FindFirst(SelectSeq(nav, LAMBDA st :
                          StartsWith(st.id, currentLine) /\ st.num = targetNum))
         IN  IF found # <<>> THEN <<found[1].id>>
             ELSE WalkRow_Through73(nav, currentLine, targetNum + directionStep, directionStep)

\* the while loop of left/right from targetNum
RECURSIVE WalkRow(_, _, _, _)
WalkRow(nav, currentLine, targetNum, directionStep) ==
    IF ~(targetNum >= 1 /\ targetNum <= 72) THEN <<>>
    ELSE LET found == FindFirst(SelectSeq(nav, LAMBDA st :
                          StartsWith(st.id, currentLine) /\ st.num = targetNum))
         IN  IF found # <<>> THEN <<found[1].id>>
             ELSE WalkRow(nav, currentLine, targetNum + directionStep, directionStep)

\* insertion of position i into a list of positions ordered by key, after equal keys
RECURSIVE InsertByKey(_, _, _)
InsertByKey(sorted, i, key) ==
    IF sorted = <<>> THEN <<i>>
    ELSE IF key[i] < key[Head(sorted)] THEN <<i>> \o sorted
    ELSE <<Head(sorted)>> \o InsertByKey(Tail(sorted), i, key)

RECURSIVE SortPositions(_, _)
SortPositions(n, key) ==
    IF n = 0 THEN <<>> ELSE InsertByKey(SortPositions(n - 1, key), n, key)

\* Array.prototype.sort with the comparator (a, b) => key(a) - key(b): stable
SortByKey(items, key) ==
    LET order == SortPositions(Len(items), key)
    IN  [i \in 1..Len(items) |-> items[order[i]]]

Abs(x) == IF x < 0 THEN 0 - x ELSE x

\* PickInTargetRow that uses the closest-number rule from every line
PickInTargetRow_Closest(stallsInTargetRow, currentNum, isCurrentVertical, dir) ==
    LET same == FindFirst(SelectSeq(stallsInTargetRow, LAMBDA st : st.num = currentNum))
    IN  IF same # <<>> THEN same[1]
        ELSE SortByKey(stallsInTargetRow,
                       [i \in 1..Len(stallsInTargetRow) |->
                           Abs(stallsInTargetRow[i].num - currentNum)])[1]

\* PickInTargetRow that takes the first stall of the row when leaving a horizontal line
PickInTargetRow_FirstInRow(stallsInTargetRow, currentNum, isCurrentVertical, dir) ==
    IF isCurrentVertical THEN
        IF dir = "down"
        THEN SortByKey(stallsInTargetRow,
                       [i \in 1..Len(stallsInTargetRow) |-> 0 - stallsInTargetRow[i].num])[1]
        ELSE SortByKey(stallsInTargetRow,
                       [i \in 1..Len(stallsInTargetRow) |-> stallsInTargetRow[i].num])[1]
    ELSE stallsInTargetRow[1]

\* the stall picked in the first target row that has navigable stalls
PickInTargetRow(stallsInTargetRow, currentNum, isCurrentVertical, dir) ==
    IF isCurrentVertical THEN
        IF dir = "down"
        THEN SortByKey(stallsInTargetRow,
                       [i \in 1..Len(stallsInTargetRow) |-> 0 - stallsInTargetRow[i].num])[1]
        ELSE SortByKey(stallsInTargetRow,
                       [i \in 1..Len(stallsInTargetRow) |-> stallsInTargetRow[i].num])[1]
    ELSE LET same == FindFirst(SelectSeq(stallsInTargetRow, LAMBDA st : st.num = currentNum))
         IN  IF same # <<>> THEN same[1]
             ELSE SortByKey(stallsInTargetRow,
                            [i \in 1..Len(stallsInTargetRow) |->
                                Abs(stallsInTargetRow[i].num - currentNum)])[1]

\* WalkRows that looks at the line it was asked to leave first
RECURSIVE WalkRows_SameRow(_, _, _, _, _, _)
WalkRows_SameRow(nav, targetRowIndex, step, currentNum, isCurrentVertical, dir) ==
    IF ~(targetRowIndex >= 0 /\ targetRowIndex < Len(allRowIds)) THEN <<>>
    ELSE LET targetRowId == <<allRowIds[targetRowIndex - step + 1]>>
             stallsInTargetRow == SelectSeq(nav, LAMBDA st : StartsWith(st.id, targetRowId))
         IN  IF Len(stallsInTargetRow) > 0
             THEN LET targetStall ==
                          PickInTargetRow(stallsInTargetRow, currentNum, isCurrentVertical, dir)
                  IN  IF targetStall.id # <<>> THEN <<targetStall.id>> ELSE <<>>
             ELSE WalkRows_SameRow(nav, targetRowIndex + step, step, currentNum,
                                   isCurrentVertical, dir)

\* the while loop of up/down from targetRowIndex (0-based)
RECURSIVE WalkRows(_, _, _, _, _, _)
WalkRows(nav, targetRowIndex, step, currentNum, isCurrentVertical, dir) ==
    IF ~(targetRowIndex >= 0 /\ targetRowIndex < Len(allRowIds)) THEN <<>>
    ELSE LET targetRowId == <<allRowIds[targetRowIndex + 1]>>
             stallsInTargetRow == SelectSeq(nav, LAMBDA st : StartsWith(st.id, targetRowId))
         IN  IF Len(stallsInTargetRow) > 0
             THEN LET targetStall ==
                          PickInTargetRow(stallsInTargetRow, currentNum, isCurrentVertical, dir)
                  IN  IF targetStall.id # <<>> THEN <<targetStall.id>> ELSE <<>>
             ELSE WalkRows(nav, targetRowIndex + step, step, currentNum, isCurrentVertical, dir)

\* <<>> for null, <<id>> for the id of the adjacent stall
getAdjacentStallId(cur, nav, dir) ==
    LET currentLine == Substring01(cur.id)
        currentNum == cur.num
        isCurrentVertical == IsVerticalRow(currentLine)
        currentRowIndex == RowIndexOf(currentLine)
    IN  IF RightBoundary(currentLine, currentNum, dir) THEN <<>>
        ELSE IF dir = "left" \/ dir = "right"
        THEN LET directionStep == DirectionStep(currentLine, currentNum, dir)
             IN  WalkRow(nav, currentLine, currentNum + directionStep, directionStep)
        ELSE IF currentRowIndex = 0 - 1 THEN <<>>
        ELSE LET step == IF dir = "up" THEN 1 ELSE 0 - 1
             IN  WalkRows(nav, currentRowIndex + step, step, currentNum, isCurrentVertical, dir)

\* the search input changes: the navigable stalls follow the search term
Search(terms) ==
    /\ navPc \in {"idle", "filtered", "answered", "shown"}
    /\ pc = "done"
    /\ \E t \in terms :
           /\ searchTerm' = t
           /\ navigable' = getNavigableStalls(allStalls, t)
    /\ navPc' = "filtered"
    /\ currentStall' = <<>>
    /\ direction' = ""
    /\ navResult' = <<>>
    /\ UNCHANGED <<allStalls, procVars, modalVars, magVars>>

\* a navigation query from a stall of the map in one of the four directions
Navigate ==
    /\ navPc = "filtered"
    /\ \E k \in 1..Len(allStalls), dir \in {"up", "down", "left", "right"} :
           /\ currentStall' = <<allStalls[k]>>
           /\ direction' = dir
           /\ navResult' = getAdjacentStallId(allStalls[k], navigable, dir)
    /\ navPc' = "answered"
    /\ UNCHANGED <<allStalls, searchTerm, navigable, procVars, modalVars, magVars>>

-----------------------------------------------------------------------------
(* modal-manager.ts: the nav controls of openModal                         *)

\* a nav button as index.html declares it: disabled, no data-target-id
NavButtonOff == [disabled |-> TRUE, targetId |-> <<>>]

\* the modal before the first openModal
ModalClosed ==
    /\ modalStallId = <<>>
    /\ modalNav = [up |-> NavButtonOff, down |-> NavButtonOff,
                   left |-> NavButtonOff, right |-> NavButtonOff]
    /\ modalHidden = TRUE
    /\ isShownState = FALSE
    /\ wasMagnifierVisible = FALSE

\* verticalRowIds.includes(rowId)
IsVerticalModalRow(rowId) == rowId \in {<<Hou>>, <<Ji>>, <<Gou>>, <<Te>>, <<Shang>>}

\* x?.id of a find: <<>> for undefined
FindId(nav, rowId, num) ==
    LET found == FindFirst(SelectSeq(nav, LAMBDA st : StartsWith(st.id, rowId) /\ st.num = num))
    IN  IF found = <<>> THEN <<>> ELSE <<found[1].id>>

\* VerticalUp whose loop has no upper end below the 72 units of a line
RECURSIVE VerticalUp_NoLimit(_, _, _)
VerticalUp_NoLimit(nav, rowId, target) ==
    IF ~(target <= 72) THEN <<>>
    ELSE LET findId == FindId(nav, rowId, target)
         IN  IF findId # <<>> /\ findId[1] # <<>> THEN findId
             ELSE VerticalUp_NoLimit(nav, rowId, target + 1)

\* while (stall.num + upStep <= 34): <<>> when upStallId stays undefined
RECURSIVE VerticalUp(_, _, _)
VerticalUp(nav, rowId, target) ==
    IF ~(target <= 34) THEN <<>>
    ELSE LET findId == FindId(nav, rowId, target)
         IN  IF findId # <<>> /\ findId[1] # <<>> THEN findId
             ELSE VerticalUp(nav, rowId, target + 1)

\* while (stall.num + downStep > 0): <<>> when downStallId stays undefined
RECURSIVE VerticalDown(_, _, _)
VerticalDown(nav, rowId, target) ==
    IF ~(target > 0) THEN <<>>
    ELSE LET findId == FindId(nav, rowId, target)
         IN  IF findId # <<>> /\ findId[1] # <<>> THEN findId
             ELSE VerticalDown(nav, rowId, target - 1)

\* disabled = !id and dataset.targetId = id ?? ''
NavButton(r) ==
    [disabled |-> (r = <<>> \/ r[1] = <<>>), targetId |-> IF r = <<>> THEN <<>> ELSE r[1]]

\* the nav controls openModal sets for a stall
NavControls(stall, navigableStalls, before) ==
    LET rowId == Substring01(stall.id)
    IN  IF IsVerticalModalRow(rowId)
        THEN LET upIn == VerticalUp(navigableStalls, rowId, stall.num + 1)
                 downIn == VerticalDown(navigableStalls, rowId, stall.num - 1)
                 upStallId == IF upIn = <<>>
                              THEN getAdjacentStallId(stall, navigableStalls, "up") ELSE upIn
                 downStallId == IF downIn = <<>>
                                THEN getAdjacentStallId(stall, navigableStalls, "down") ELSE downIn
             IN  [up |-> NavButton(upStallId),
                  down |-> NavButton(downStallId),
                  left |-> [before.left EXCEPT !.disabled = TRUE],
                  right |-> [before.right EXCEPT !.disabled = TRUE]]
        ELSE [up |-> NavButton(getAdjacentStallId(stall, navigableStalls, "up")),
              down |-> NavButton(getAdjacentStallId(stall, navigableStalls, "down")),
              left |-> NavButton(getAdjacentStallId(stall, navigableStalls, "left")),
              right |-> NavButton(getAdjacentStallId(stall, navigableStalls, "right"))]

\* openModal(stallId, context): the stall shown and its nav controls
OpenModal(stallId) ==
    LET hits == SelectSeq(allStalls, LAMBDA st : st.id = stallId)
    IN  /\ pc = "done"
        /\ hits # <<>>
        /\ modalStallId' = <<stallId>>
        /\ navigable' = getNavigableStalls(allStalls, searchTerm)
        /\ modalNav' = NavControls(hits[1], navigable', modalNav)
        /\ navPc' = "shown"
        /\ IF modalHidden
           THEN /\ wasMagnifierVisible' = isShownState
                /\ isShownState' = FALSE
           ELSE UNCHANGED <<isShownState, wasMagnifierVisible>>
        /\ modalHidden' = FALSE
        /\ UNCHANGED <<allStalls, searchTerm, currentStall, direction, navResult, procVars>>

\* a click on the Left or the Right button, whichever the user keeps to
PressAgain ==
    LET b == IF direction = "left" THEN modalNav.left ELSE modalNav.right
    IN  /\ ~modalHidden
        /\ ~b.disabled
        /\ b.targetId # <<>>
        /\ OpenModal(b.targetId)

\* the same click by its guard and the stall the modal shows after it: what
\* the fairness of the walk is stated on
PressTaken ==
    LET b == IF direction = "left" THEN modalNav.left ELSE modalNav.right
    IN  /\ ~modalHidden
        /\ ~b.disabled
        /\ b.targetId # <<>>
        /\ modalStallId' = <<b.targetId>>

\* closeModal that leaves the magnifier as it is
CloseModal_NoRestore ==
    /\ ~modalHidden
    /\ modalHidden' = TRUE
    /\ wasMagnifierVisible' = FALSE
    /\ UNCHANGED <<isShownState, modalVars, navVars, procVars>>

\* closeModal(context), from the close button, the overlay or Escape
CloseModal ==
    /\ ~modalHidden
    /\ modalHidden' = TRUE
    /\ isShownState' = (IF wasMagnifierVisible THEN TRUE ELSE isShownState)
    /\ wasMagnifierVisible' = FALSE
    /\ UNCHANGED <<modalVars, navVars, procVars>>

\* toggle of the magnifier, from its button
ToggleMagnifier ==
    /\ isShownState' = ~isShownState
    /\ UNCHANGED <<modalHidden, wasMagnifierVisible, modalVars, navVars, procVars>>

\* a click on a stall of the map, or on an entry of the modal's stall list
ClickStall == \E k \in 1..Len(allStalls) : OpenModal(allStalls[k].id)

\* a click on an enabled nav button that carries a target id
ClickNavButton ==
    /\ ~modalHidden
    /\ \E b \in {modalNav.up, modalNav.down, modalNav.left, modalNav.right} :
           /\ ~b.disabled
           /\ b.targetId # <<>>
           /\ OpenModal(b.targetId)

-----------------------------------------------------------------------------
(* Inputs of processStalls and its specifications                          *)

\* a row of the sheet: every column is a string, '' when the cell is empty
Row(id, stallId, num, stallCnt, promoUser) ==
    [id |-> id, stallId |-> stallId, num |-> num, stallCnt |-> stallCnt,
     stallTitle |-> <<>>, stallImg |-> <<>>, stallLink |-> <<>>,
     promoUser |-> promoUser, promoAvatar |-> <<>>, promoHTML |-> <<>>,
     promoLinks |-> <<>>, promoTags |-> <<>>]

MaxRows == 3

A01 == <<"A", "0", "1">>
Gou04 == <<Gou, "0", "4">>

\* rows of two stalls, with and without an author, keyed by id or by stallId,
\* with unparsable numbers, an unknown line and no id at all
ProcRows ==
    { Row(A01, <<>>, <<"1">>, <<>>, <<"u">>),
      Row(A01, <<>>, <<"1">>, <<>>, <<>>),
      Row(A01, <<>>, <<>>, <<>>, <<"v">>),
      [Row(A01, <<>>, <<"4", "0">>, <<"2">>, <<"w">>)
          EXCEPT !.stallTitle = <<"T">>, !.stallImg = <<"i">>, !.stallLink = <<"l">>],
      Row(<<>>, A01, <<"1">>, <<>>, <<"u">>),
      Row(Gou04, <<>>, <<"4">>, <<>>, <<"u">>),
      Row(Gou04, <<>>, <<"0", "4">>, <<>>, <<>>),
      Row(Gou04, <<>>, <<"x">>, <<>>, <<"v">>),
      Row(<<"a", "0", "1">>, <<>>, <<"1">>, <<>>, <<"u">>),
      Row(<<>>, <<>>, <<"1">>, <<>>, <<"u">>) }

SeqsUpTo(S, n) == UNION {[1..k -> S] : k \in 0..n}

NavIdle ==
    /\ allStalls = <<>>
    /\ searchTerm = <<>>
    /\ currentStall = <<>>
    /\ direction = ""
    /\ navigable = <<>>
    /\ navResult = <<>>
    /\ navPc = "idle"
    /\ ModalClosed

InitProc ==
    /\ rawData \in SeqsUpTo(ProcRows, MaxRows)
    /\ idx = 1
    /\ stallsMap = <<>>
    /\ pc = "rows"
    /\ NavIdle

NextProc == ProcessRow \/ CollectTags

\* processStalls on sequences of rows that share ids
SpecProc == InitProc /\ [][NextProc]_vars

NextTwice == ProcessRow \/ CollectTags \/ CallAgain

\* two calls of processStalls in a row on the same rows
SpecTwice == InitProc /\ [][NextTwice]_vars

MaxNum == 73
MaxSpan == 3

\* two-digit unit number of an id, as in "A01"
Pad2(n) == IF n < 10 THEN <<"0">> \o NumToStr(n) ELSE NumToStr(n)

\* one row for every template line, unit number and span
GeoRows ==
    { Row(<<locateStalls[l].id>> \o Pad2(n), <<>>, NumToStr(n), NumToStr(k), <<>>) :
        l \in 1..Len(locateStalls), n \in 0..MaxNum, k \in 1..MaxSpan }

InitGeo ==
    /\ rawData \in {<<r>> : r \in GeoRows}
    /\ idx = 1
    /\ stallsMap = <<>>
    /\ pc = "rows"
    /\ NavIdle

\* processStalls on one stall of every line, unit number and span
SpecGeo == InitGeo /\ [][NextProc]_vars

\* stallCnt fields: absent, zero, negative, not a number, plain, padded
CntFields == {<<>>, <<"0">>, <<"-", "2">>, <<"x">>, <<"1">>, <<"2">>, <<" ", "3">>}

\* one row for every template line, a unit on each tier and every span field
CntRows ==
    { Row(<<locateStalls[l].id>> \o Pad2(n), <<>>, NumToStr(n), c, <<>>) :
        l \in 1..Len(locateStalls), n \in {1, 40}, c \in CntFields }

InitCnt ==
    /\ rawData \in {<<r>> : r \in CntRows}
    /\ idx = 1
    /\ stallsMap = <<>>
    /\ pc = "rows"
    /\ NavIdle

\* processStalls on one stall of every line and span field
SpecCnt == InitCnt /\ [][NextProc]_vars

B02 == <<"B", "0", "2">>

\* a row of stall id that carries a promotion of user with the tag field tags
TagRow(id, user, tags) == [Row(id, <<>>, <<"1">>, <<>>, user) EXCEPT !.promoTags = tags]

\* promoTags fields: absent, "x;y", "y;z", " x ;;y", ";", "z;x;z"
TagFields ==
    { <<>>,
      <<"x", ";", "y">>,
      <<"y", ";", "z">>,
      <<" ", "x", " ", ";", ";", "y">>,
      <<";">>,
      <<"z", ";", "x", ";", "z">> }

\* promotions of A01 with every tag field, one of B02, and a row of A01 that
\* has tags but no promoUser
TagRows ==
    {TagRow(A01, <<"u">>, t) : t \in TagFields}
        \cup {TagRow(B02, <<"u">>, <<"y", ";", "z">>), TagRow(A01, <<>>, <<"q">>)}

InitTags ==
    /\ rawData \in SeqsUpTo(TagRows, MaxRows)
    /\ idx = 1
    /\ stallsMap = <<>>
    /\ pc = "rows"
    /\ NavIdle

\* processStalls on promotions that carry tags
SpecTags == InitTags /\ [][NextProc]_vars

\* a row of stall id that carries a promotion of user with the links field links
LinkRow(id, user, links) == [Row(id, <<>>, <<"1">>, <<>>, user) EXCEPT !.promoLinks = links]

\* promoLinks fields: absent, "a", "a;b", "a;;b", " a ; b ", ";", "a;"
LinkFields ==
    { <<>>,
      <<"a">>,
      <<"a", ";", "b">>,
      <<"a", ";", ";", "b">>,
      <<" ", "a", " ", ";", " ", "b", " ">>,
      <<";">>,
      <<"a", ";">> }

\* promotions of A01 by u with every links field, and one of B02 by v
LinkRows ==
    {LinkRow(A01, <<"u">>, f) : f \in LinkFields}
        \cup {LinkRow(B02, <<"v">>, <<"a", ";", ";", "b">>)}

InitLinks ==
    /\ rawData \in SeqsUpTo(LinkRows, MaxRows)
    /\ idx = 1
    /\ stallsMap = <<>>
    /\ pc = "rows"
    /\ NavIdle

\* processStalls on promotions that carry links
SpecLinks == InitLinks /\ [][NextProc]_vars

MaxStalls == 3

Foo == <<"F", "o", "o">>
Bar == <<"B", "a", "r">>

\* the official row of a stall: its line, unit number and title
NavRow(line, n, title) ==
    [Row(<<line>> \o Pad2(n), <<>>, NumToStr(n), <<>>, <<>>) EXCEPT !.stallTitle = title]

\* stalls of both tiers of line A, of other horizontal lines and of the
\* vertical lines; the order is not sorted by number
NavPool ==
    << NavRow("A", 3, Foo), NavRow("A", 1, Foo), NavRow("A", 2, Bar),
       NavRow("A", 72, Foo), NavRow("A", 37, Foo),
       NavRow("B", 2, Bar),
       NavRow("R", 73, Foo), NavRow("R", 72, Foo),
       NavRow(Yang, 5, Foo), NavRow(Yang, 9, Foo),
       NavRow(Shang, 1, Foo),
       NavRow(Hou, 3, Foo), NavRow(Hou, 1, Foo),
       NavRow(Ji, 2, Foo),
       NavRow(Gou, 1, Foo) >>

\* the sheets that hold at most MaxStalls rows of the pool, in pool order
NavSheets ==
    { [i \in 1..Len(q) |-> NavPool[q[i]]] :
        q \in { q \in SeqsUpTo(1..Len(NavPool), MaxStalls) :
                  \A i \in 1..(Len(q) - 1) : q[i] < q[i + 1] } }

NavTerms == {<<>>, <<" ", "F", "O", "o", " ">>}

\* the state after the data load: processStalls has returned allStalls
InitNav ==
    /\ rawData \in NavSheets
    /\ idx = Len(rawData) + 1
    /\ stallsMap = processStalls(rawData)
    /\ pc = "done"
    /\ allStalls = stallsMap
    /\ searchTerm = <<>>
    /\ currentStall = <<>>
    /\ direction = ""
    /\ navigable = allStalls
    /\ navResult = <<>>
    /\ navPc = "idle"
    /\ ModalClosed

NextNav == Search(NavTerms) \/ Navigate

\* navigation queries on a loaded map under a search filter
SpecNav == InitNav /\ [][NextNav]_vars

\* a row with a title, an author and a tag field
FilterRow(id, n, title, user, tags) ==
    [Row(id, <<>>, NumToStr(n), <<>>, user) EXCEPT !.stallTitle = title, !.promoTags = tags]

\* official and promotion rows of four stalls, one of them on a vertical line: titles, authors and tags that
\* share some words and differ in case
FilterPool ==
    << FilterRow(A01, 1, Foo, <<>>, <<>>),
       FilterRow(A01, 1, <<>>, <<"A", "n", "n">>, <<"z", "e", "d", ";", "c", "a", "t">>),
       FilterRow(<<"B", "0", "2">>, 2, Bar, <<"B", "o", "b">>, <<" ", "D", "o", "g", " ">>),
       FilterRow(<<"B", "0", "2">>, 2, <<>>, <<"Z", "e", "d">>, <<>>),
       FilterRow(<<Gou, "0", "1">>, 1, <<"C", "a", "t">>, <<>>, <<>>),
       FilterRow(<<"C", "0", "3">>, 3, <<>>, <<"a", "n", "n">>, <<"f", "o", "o">>),
       FilterRow(<<Gou, "0", "1">>, 1, <<>>, <<"E", "v", "e">>, <<"d", "o", "g">>) >>

FilterSheets ==
    { [i \in 1..Len(q) |-> FilterPool[q[i]]] :
        q \in { q \in SeqsUpTo(1..Len(FilterPool), MaxStalls) :
                  \A i \in 1..(Len(q) - 1) : q[i] < q[i + 1] } }

FilterTerms ==
    { <<>>, <<" ", " ">>, <<"z", "e", "d">>, <<"Z", "E", "D", " ">>, <<"a">>,
      <<"c", "a", "t">>, <<"n", "/", "a">>, <<"d", "o", "g">>, <<"q">> }

InitFilter ==
    /\ rawData \in FilterSheets
    /\ idx = Len(rawData) + 1
    /\ stallsMap = processStalls(rawData)
    /\ pc = "done"
    /\ allStalls = stallsMap
    /\ searchTerm = <<>>
    /\ currentStall = <<>>
    /\ direction = ""
    /\ navigable = allStalls
    /\ navResult = <<>>
    /\ navPc = "idle"
    /\ ModalClosed

NextFilter == Search(FilterTerms)

\* the search filter on stalls with titles, authors and tags
SpecFilter == InitFilter /\ [][NextFilter]_vars

\* stalls of the vertical lines, with unit numbers at both ends of the range
\* the modal walks, and of a horizontal line
ModalPool ==
    << NavRow(Hou, 3, Bar), NavRow(Hou, 0, Foo), NavRow(Hou, 35, Foo), NavRow(Hou, 1, Foo),
       NavRow(Hou, 34, Foo),
       NavRow(Ji, 2, Foo), NavRow(Gou, 1, Foo), NavRow(Shang, 1, Foo),
       NavRow(Yang, 5, Foo), NavRow(Yang, 9, Foo) >>

ModalSheets ==
    { [i \in 1..Len(q) |-> ModalPool[q[i]]] :
        q \in { q \in SeqsUpTo(1..Len(ModalPool), MaxStalls) :
                  \A i \in 1..(Len(q) - 1) : q[i] < q[i + 1] } }

InitModal ==
    /\ rawData \in ModalSheets
    /\ idx = Len(rawData) + 1
    /\ stallsMap = processStalls(rawData)
    /\ pc = "done"
    /\ allStalls = stallsMap
    /\ searchTerm = <<>>
    /\ currentStall = <<>>
    /\ direction = ""
    /\ navigable = allStalls
    /\ navResult = <<>>
    /\ navPc = "idle"
    /\ ModalClosed

NextModal == Search(NavTerms) \/ ClickStall \/ ClickNavButton

\* the modal's nav controls on a loaded map under a search filter
SpecModal == InitModal /\ [][NextModal]_vars

\* stalls on both halves of line A and on line Yang
WalkPool ==
    << NavRow("A", 1, Foo), NavRow("A", 3, Foo), NavRow("A", 36, Foo), NavRow("A", 37, Foo),
       NavRow("A", 40, Foo), NavRow("A", 72, Foo), NavRow(Yang, 5, Foo), NavRow(Yang, 41, Foo) >>

WalkSheets ==
    { [i \in 1..Len(q) |-> WalkPool[q[i]]] :
        q \in { q \in SeqsUpTo(1..Len(WalkPool), MaxStalls) :
                  \A i \in 1..(Len(q) - 1) : q[i] < q[i + 1] } }

\* every stall eligible, the modal closed, the user set on one of the two buttons
InitWalk ==
    /\ rawData \in WalkSheets
    /\ idx = Len(rawData) + 1
    /\ stallsMap = processStalls(rawData)
    /\ pc = "done"
    /\ allStalls = stallsMap
    /\ searchTerm = <<>>
    /\ currentStall = <<>>
    /\ direction \in {"left", "right"}
    /\ navigable = allStalls
    /\ navResult = <<>>
    /\ navPc = "idle"
    /\ ModalClosed

NextWalk == (modalHidden /\ ClickStall) \/ PressAgain

\* the modal opened on a stall, then the same button pressed as long as it is
\* enabled
SpecWalk == InitWalk /\ [][NextWalk]_vars /\ WF_modalStallId(PressTaken)

\* one stall on lines of each kind of the template table: letters, zodiac
\* signs, the small lines, the vertical lines and the last template
OrderPool ==
    << NavRow("A", 1, Foo), NavRow("Z", 1, Foo), NavRow(Shu, 1, Foo), NavRow(Yang, 1, Foo),
       NavRow(Shang, 1, Foo), NavRow(Te, 1, Foo), NavRow(Hou, 1, Foo), NavRow(Ji, 1, Foo),
       NavRow(Gou, 1, Foo), NavRow(Fan, 1, Foo) >>

OrderSheets ==
    { [i \in 1..Len(q) |-> OrderPool[q[i]]] :
        q \in { q \in SeqsUpTo(1..Len(OrderPool), MaxStalls) :
                  \A i \in 1..(Len(q) - 1) : q[i] < q[i + 1] } }

InitOrder ==
    /\ rawData \in OrderSheets
    /\ idx = Len(rawData) + 1
    /\ stallsMap = processStalls(rawData)
    /\ pc = "done"
    /\ allStalls = stallsMap
    /\ searchTerm = <<>>
    /\ currentStall = <<>>
    /\ direction = ""
    /\ navigable = allStalls
    /\ navResult = <<>>
    /\ navPc = "idle"
    /\ ModalClosed

NextOrder == Search({<<>>}) \/ Navigate

\* navigation queries between stalls of the lines of the template table
SpecOrder == InitOrder /\ [][NextOrder]_vars

\* two neighbours on a horizontal line and two on a vertical line
MagPool ==
    << NavRow("A", 1, Foo), NavRow("A", 2, Foo), NavRow(Hou, 1, Foo), NavRow(Hou, 2, Foo) >>

MagSheets ==
    { [i \in 1..Len(q) |-> MagPool[q[i]]] :
        q \in { q \in SeqsUpTo(1..Len(MagPool), MaxStalls) :
                  \A i \in 1..(Len(q) - 1) : q[i] < q[i + 1] } }

InitMag ==
    /\ rawData \in MagSheets
    /\ idx = Len(rawData) + 1
    /\ stallsMap = processStalls(rawData)
    /\ pc = "done"
    /\ allStalls = stallsMap
    /\ searchTerm = <<>>
    /\ currentStall = <<>>
    /\ direction = ""
    /\ navigable = allStalls
    /\ navResult = <<>>
    /\ navPc = "idle"
    /\ ModalClosed

\* the magnifier is toggled only while the modal is closed
NextMag == ClickStall \/ ClickNavButton \/ CloseModal \/ (modalHidden /\ ToggleMagnifier)

\* the modal opened, navigated and closed, with the magnifier shown or not
SpecMag == InitMag /\ [][NextMag]_vars

-----------------------------------------------------------------------------
(* Claims on processStalls                                                 *)

\* the ids carried by the rows of the call
InputIds == {RowId(rawData[i]) : i \in 1..Len(rawData)} \ {<<>>}

\* positions of the rows carrying id
RowsOf(id) == {i \in 1..Len(rawData) : RowId(rawData[i]) = id}

\* positions of the stalls with id in the result
StallsOf(id) == {k \in 1..Len(stallsMap) : stallsMap[k].id = id}

\* the row has a template line and a unit number that parses
Resolvable(i) ==
    /\ \E l \in 1..Len(locateStalls) : <<locateStalls[l].id>> = Substring01(RowId(rawData[i]))
    /\ ParseInt(rawData[i].num).ok

\* C1: processStalls never returns two stalls with the same id, and the
\* promotions of the rows sharing an id are all held by the stall of that id.
C1_UniqueIds ==
    /\ \A i, j \in 1..Len(stallsMap) : stallsMap[i].id = stallsMap[j].id => i = j
    /\ \A i \in 1..Len(stallsMap) : \A k \in 1..Len(stallsMap[i].promoData) :
           stallsMap[i].promoData[k].stallId = stallsMap[i].id

\* three rows, two of them sharing an id, gave two stalls
C1_Witness ==
    /\ pc = "done"
    /\ Len(stallsMap) = 2
    /\ \E i, j \in 1..Len(rawData) : i # j /\ RowId(rawData[i]) = RowId(rawData[j])
                                       /\ Cardinality(StallsOf(RowId(rawData[i]))) = 1

\* C2 as stated: every id of the input has exactly one stall, whose promoData
\* has one entry for each row of that id with a non-empty promoUser.
C2_Original ==
    pc = "done" =>
        \A id \in InputIds :
            /\ Cardinality(StallsOf(id)) = 1
            /\ \A k \in StallsOf(id) :
                   Len(stallsMap[k].promoData) =
                       Cardinality({i \in RowsOf(id) : rawData[i].promoUser # <<>>})

\* C2 amended: every id of the input has at most one stall, and has one exactly
\* when some row of that id has a template line and a unit number that parses;
\* its promoData has one entry for each row of that id with a non-empty
\* promoUser from the first such row on (rows before it are skipped whole).
C2_PromotionsFromShell ==
    pc = "done" =>
        \A id \in InputIds :
            LET ok == {i \in RowsOf(id) : Resolvable(i)}
            IN  /\ Cardinality(StallsOf(id)) = (IF ok = {} THEN 0 ELSE 1)
                /\ \A k \in StallsOf(id) :
                       LET first == CHOOSE i \in ok : \A j \in ok : i <= j
                       IN  Len(stallsMap[k].promoData) =
                               Cardinality({i \in RowsOf(id) :
                                               i >= first /\ rawData[i].promoUser # <<>>})

\* a stall that holds two promotions, after a row of its id that was skipped
C2_Witness ==
    /\ pc = "done"
    /\ \E k \in 1..Len(stallsMap) :
           /\ Len(stallsMap[k].promoData) = 2
           /\ \E i \in RowsOf(stallsMap[k].id) : ~Resolvable(i)

-----------------------------------------------------------------------------
(* Claims on the geometry                                                  *)

\* the anchor of the line of a resolved stall
AnchorOf(stall) ==
    (CHOOSE l \in 1..Len(locateStalls) : <<locateStalls[l].id>> = Substring01(stall.id))

VerticalLines == {Gou, Ji, Hou, Te, Shang}

OnHorizontal(stall) == stall.id[1] \notin VerticalLines
OnVertical(stall) == stall.id[1] \in VerticalLines

\* gap(n) as C5 states it
C5_Gap(n) ==
    IF n <= 12 \/ n >= 61 THEN 0 ELSE IF 24 < n /\ n <= 48 THEN 1750 ELSE 900

\* C5: a span-1 stall of a horizontal line with unit number n in 1..72 has
\* top = anchorTop and left = anchorLeft - (n-1)*anchorWidth - gap(n) when
\* n <= 36, and top = anchorTop - anchorHeight - 0.25 and
\* left = anchorLeft - (72-n)*anchorWidth - gap(n) when n > 36; the string
\* rect carries the same numbers.
C5_HorizontalRect ==
    \A k \in 1..Len(stallsMap) :
        LET s == stallsMap[k]
            a == locateStalls[AnchorOf(s)].coords
            n == s.num
        IN  (OnHorizontal(s) /\ s.stallCnt = 1 /\ n \in 1..72) =>
                /\ s.numericCoords.top =
                       (IF n <= 36 THEN a.top ELSE a.top - a.height - 250)
                /\ s.numericCoords.left =
                       (IF n <= 36 THEN a.left - (n - 1) * a.width - C5_Gap(n)
                        ELSE a.left - (72 - n) * a.width - C5_Gap(n))
                /\ (n = 1 => s.numericCoords.left = a.left)
                /\ s.coords.top = <<s.numericCoords.top, "%">>
                /\ s.coords.left = <<s.numericCoords.left, "%">>

\* unit 37 of line A resolved on the upper tier
C5_Witness ==
    /\ pc = "done"
    /\ \E k \in 1..Len(stallsMap) :
           /\ stallsMap[k].id = <<"A", "3", "7">>
           /\ stallsMap[k].stallCnt = 1
           /\ stallsMap[k].numericCoords.top = 86150
           /\ stallsMap[k].numericCoords.left = 52500

\* C6 as stated: on either tier a span k > 1 gives width k*anchorWidth and a
\* left edge (k-1)*anchorWidth left of the span-1 left edge of the same unit.
C6_Original ==
    \A k \in 1..Len(stallsMap) :
        LET s == stallsMap[k]
            a == locateStalls[AnchorOf(s)].coords
        IN  (OnHorizontal(s) /\ s.stallCnt > 1 /\ s.num \in 1..72) =>
                /\ s.numericCoords.width = s.stallCnt * a.width
                /\ s.numericCoords.left =
                       HorizontalCoords(a, s.num, 1).left - (s.stallCnt - 1) * a.width

\* C6 amended: a span k > 1 gives width k*anchorWidth on either tier; on the
\* lower tier (n <= 36) the left edge is (k-1)*anchorWidth left of the span-1
\* left edge of the same unit, on the upper tier (n > 36) the left edge is the
\* span-1 left edge itself.
C6_SpanLowerTierOnly ==
    \A k \in 1..Len(stallsMap) :
        LET s == stallsMap[k]
            a == locateStalls[AnchorOf(s)].coords
        IN  (OnHorizontal(s) /\ s.stallCnt > 1 /\ s.num \in 1..72) =>
                /\ s.numericCoords.width = s.stallCnt * a.width
                /\ s.numericCoords.left =
                       (IF s.num <= 36
                        THEN HorizontalCoords(a, s.num, 1).left - (s.stallCnt - 1) * a.width
                        ELSE HorizontalCoords(a, s.num, 1).left)

\* a span-2 stall at unit 40 whose left edge is the span-1 left edge
C6_Witness ==
    /\ pc = "done"
    /\ \E k \in 1..Len(stallsMap) :
           /\ stallsMap[k].id = <<"A", "4", "0">>
           /\ stallsMap[k].stallCnt = 2
           /\ stallsMap[k].numericCoords.width = 2100
           /\ stallsMap[k].numericCoords.left = 91000 - 32 * 1050 - 1750

\* C7 as stated: a span-1 stall of a vertical line has
\* top = anchorTop + anchorHeight*(e-1) + g, below unit 1 when e > 1, and the
\* anchor's left and width.
C7_Original ==
    \A k \in 1..Len(stallsMap) :
        LET s == stallsMap[k]
            a == locateStalls[AnchorOf(s)].coords
            r == VerticalRemap(Substring01(s.id), s.num)
        IN  (OnVertical(s) /\ s.stallCnt = 1) =>
                /\ s.numericCoords.top = a.top + a.height * (r.tempNum - 1) + r.gapSize
                /\ (r.tempNum > 1 => s.numericCoords.top > a.top)
                /\ s.numericCoords.left = a.left
                /\ s.numericCoords.width = a.width

\* C7 amended: a span-1 stall of a vertical line has
\* top = anchorTop - anchorHeight*(e-1) - g, so a unit with a larger effective
\* index has a smaller top (lies higher) than unit 1 of the line; left and
\* width equal the anchor's.
C7_VerticalStacksUpward ==
    \A k \in 1..Len(stallsMap) :
        LET s == stallsMap[k]
            a == locateStalls[AnchorOf(s)].coords
            r == VerticalRemap(Substring01(s.id), s.num)
        IN  (OnVertical(s) /\ s.stallCnt = 1) =>
                /\ s.numericCoords.top = a.top - a.height * (r.tempNum - 1) - r.gapSize
                /\ (r.tempNum > 1 => s.numericCoords.top < a.top)
                /\ s.numericCoords.left = a.left
                /\ s.numericCoords.width = a.width

\* unit 2 of line Te resolved one anchor height above the anchor
C7_Witness ==
    /\ pc = "done"
    /\ \E k \in 1..Len(stallsMap) :
           /\ stallsMap[k].id = <<Te, "0", "2">>
           /\ stallsMap[k].stallCnt = 1
           /\ stallsMap[k].numericCoords.top = 84400 - 2410

\* effective index and gap of unit n >= 1 as C8 states them
C8_Remap(c, n) ==
    LET second == IF c = Gou THEN 16 ELSE IF c = Ji THEN 21 ELSE 23
        shift == IF c = Gou THEN 12 ELSE IF c = Ji THEN 17 ELSE 19
        small == IF c = Hou THEN 500 ELSE 400
    IN  IF c \in {Te, Shang} \/ n <= 3 THEN [e |-> n, g |-> 0]
        ELSE IF n < second THEN [e |-> 3, g |-> 800]
        ELSE [e |-> n - shift, g |-> small]

\* C8: on lines Gou, Ji and Hou units 1..3 keep their number with gap 0, units
\* from 4 up to the second threshold (16, 21, 23) share index 3 with gap 0.8
\* and so one rect for equal span, units from the threshold on have index
\* n-12, n-17, n-19 (4 for the first) with gap 0.4, 0.4, 0.5; lines Te and
\* Shang use index n and gap 0. The rect is the one of that index and gap.
C8_VerticalRemap ==
    \A k \in 1..Len(stallsMap) :
        LET s == stallsMap[k]
            a == locateStalls[AnchorOf(s)].coords
            m == C8_Remap(s.id[1], s.num)
        IN  (OnVertical(s) /\ s.num >= 1) =>
                /\ s.numericCoords.top =
                       a.top - a.height * (m.e - 1) - m.g - (s.stallCnt - 1) * a.height
                /\ s.numericCoords.height = s.stallCnt * a.height
                /\ (s.num >= 4 /\ m.e = 3 =>
                       s.numericCoords = VerticalCoords(a, Substring01(s.id), 4, s.stallCnt))
                /\ (<<s.id[1], s.num>> \in {<<Gou, 16>>, <<Ji, 21>>, <<Hou, 23>>} =>
                       s.numericCoords.top =
                           a.top - 3 * a.height - m.g - (s.stallCnt - 1) * a.height)

\* unit 23 of line Hou resolved at index 4 with the smaller gap
C8_Witness ==
    /\ pc = "done"
    /\ \E k \in 1..Len(stallsMap) :
           /\ stallsMap[k].id = <<Hou, "2", "3">>
           /\ stallsMap[k].stallCnt = 1
           /\ stallsMap[k].numericCoords.top = 73500 - 3 * 1440 - 500

-----------------------------------------------------------------------------
(* Claims on the navigation                                                *)

Cur == currentStall[1]

Answered(dirs) == navPc = "answered" /\ direction \in dirs

Navigable == Range(navigable)

\* the navigable stall a result names
ResultStall == CHOOSE st \in Navigable : st.id = navResult[1]

\* C3: from unit n in 1..72 of a horizontal line, 'left' gives the navigable
\* stall of the line with the smallest unit number above n when n <= 36 and
\* the one with the largest unit number below n when n >= 37, 'right' the
\* reverse; units without a navigable stall are skipped, only units 1..72 are
\* candidates, and the result is none when there is no candidate.
C3_LeftRight ==
    (Answered({"left", "right"}) /\ Cur.id[1] \notin VerticalLines /\ Cur.num \in 1..72) =>
        LET n == Cur.num
            cands == {st \in Navigable : st.id[1] = Cur.id[1] /\ st.num \in 1..72}
            upward == (direction = "left") = (n <= 36)
            side == IF upward THEN {st \in cands : st.num > n}
                    ELSE {st \in cands : st.num < n}
        IN  IF side = {} THEN navResult = <<>>
            ELSE /\ navResult # <<>>
                 /\ ResultStall \in side
                 /\ \A st \in side : IF upward THEN ResultStall.num <= st.num
                                     ELSE ResultStall.num >= st.num

\* A02 is on the map but filtered out, and 'left' from A01 is A03
C3_Witness ==
    /\ Answered({"left"})
    /\ Cur.id = A01
    /\ \E st \in Range(allStalls) : st.id = <<"A", "0", "2">>
    /\ {st.id : st \in Navigable} = {A01, <<"A", "0", "3">>}
    /\ navResult = << <<"A", "0", "3">> >>

\* the line order as C4 states it
C4_Order == <<"A", "B", "C", "D", "E", "F", "G", "H", "I", "J", "K", "L", "M",
              "N", "O", "P", "Q", "R", "S", "T", "U", "V", "W", "X", "Y", "Z",
              Shu, Niu, Hu, Tu, Long, She, Ma, Yang, Shang, Te, Hou, Ji, Gou>>

C4_Pos(c) == CHOOSE i \in 1..Len(C4_Order) : C4_Order[i] = c

\* positions of the lines that hold a navigable stall, beyond the current line
C4_Targets ==
    {j \in 1..Len(C4_Order) :
        /\ IF direction = "up" THEN j > C4_Pos(Cur.id[1]) ELSE j < C4_Pos(Cur.id[1])
        /\ \E st \in Navigable : st.id[1] = C4_Order[j]}

\* the first of them in the direction of the query
C4_First ==
    CHOOSE j \in C4_Targets :
        \A k \in C4_Targets : IF direction = "up" THEN j <= k ELSE j >= k

\* C4: 'up' ('down') gives a navigable stall of the first line after (before)
\* the current line in the order A..Z, Shu .. Yang, Shang, Te, Hou, Ji, Gou
\* that holds a navigable stall, lines without one are skipped, and the result
\* is none when there is no such line: 'up' from line Gou is always none.
C4_UpDown ==
    (Answered({"up", "down"}) /\ Cur.id[1] \in Range(C4_Order)) =>
        /\ IF C4_Targets = {} THEN navResult = <<>>
           ELSE /\ navResult # <<>>
                /\ \E st \in Navigable : st.id = navResult[1]
                /\ navResult[1][1] = C4_Order[C4_First]
        /\ (direction = "up" /\ Cur.id[1] = Gou => navResult = <<>>)

\* 'up' from A01 passes line B, whose stall is filtered out, and lands on line R
C4_Witness ==
    /\ Answered({"up"})
    /\ Cur.id = A01
    /\ \E st \in Range(allStalls) : st.id[1] = "B"
    /\ \A st \in Navigable : st.id[1] # "B"
    /\ navResult = << <<"R", "7", "2">> >>

\* C10: from a vertical line an up/down query lands, in the first line of the
\* direction that holds navigable stalls, on the navigable stall of that line
\* with the highest unit number when moving down and with the lowest when
\* moving up, whatever the unit number of the current stall.
C10_FromVertical ==
    (Answered({"up", "down"}) /\ Cur.id[1] \in VerticalLines /\ C4_Targets # {}) =>
        /\ navResult # <<>>
        /\ ResultStall.id[1] = C4_Order[C4_First]
        /\ \A st \in Navigable :
               st.id[1] = C4_Order[C4_First] =>
                   IF direction = "down" THEN st.num <= ResultStall.num
                   ELSE st.num >= ResultStall.num

\* 'down' from line Shang with units 5 and 9 navigable on line Yang lands on 9
C10_Witness ==
    /\ Answered({"down"})
    /\ Cur.id[1] = Shang
    /\ {st.num : st \in {x \in Navigable : x.id[1] = Yang}} = {5, 9}
    /\ navResult = << <<Yang, "0", "9">> >>

\* the search term as the filter compares it
C9_Needle == Trim(ToLowerCase(searchTerm))

\* the stall matches on its id, its title, an author or a tag
C9_Matches(st) ==
    \/ Includes(ToLowerCase(st.id), C9_Needle)
    \/ Includes(ToLowerCase(st.stallTitle), C9_Needle)
    \/ \E i \in 1..Len(st.promoData) : Includes(ToLowerCase(st.promoData[i].promoUser), C9_Needle)
    \/ \E i \in 1..Len(st.promoTags) : Includes(ToLowerCase(st.promoTags[i]), C9_Needle)

\* C9: for a non-blank search term getNavigableStalls returns exactly the
\* stalls whose id, title, author name of a promotion or tag contains the
\* lower-cased trimmed term.
C9_FilterFields ==
    (navPc = "filtered" /\ C9_Needle # <<>>) =>
        navigable = SelectSeq(allStalls, C9_Matches)

\* C11: from a horizontal line an up/down query lands, in the first line of
\* the direction that holds navigable stalls, on a navigable stall of that line
\* with the current unit number if there is one, and otherwise on one whose
\* unit number is closest to the current unit number.
C11_FromHorizontal ==
    (/\ Answered({"up", "down"})
     /\ Cur.id[1] \in Range(C4_Order) \ VerticalLines
     /\ C4_Targets # {}) =>
        /\ navResult # <<>>
        /\ ResultStall.id[1] = C4_Order[C4_First]
        /\ \A st \in Navigable :
               st.id[1] = C4_Order[C4_First] =>
                   /\ (st.num = Cur.num => ResultStall.num = Cur.num)
                   /\ Abs(ResultStall.num - Cur.num) <= Abs(st.num - Cur.num)

\* 'up' from A72 lands on R72, listed after R73, which is as navigable
C11_Witness ==
    /\ Answered({"up"})
    /\ Cur.id = <<"A", "7", "2">>
    /\ {st.num : st \in {x \in Navigable : x.id[1] = "R"}} = {72, 73}
    /\ navResult = << <<"R", "7", "2">> >>

\* C13: a left/right query gives none or a stall of the current stall's line;
\* running past unit 1 or unit 72 never wraps to another line.
C13_NoWrap ==
    Answered({"left", "right"}) =>
        \/ navResult = <<>>
        \/ /\ navResult[1][1] = Cur.id[1]
           /\ \E st \in Navigable : st.id = navResult[1]

\* 'left' from A01 is none although line B holds a navigable unit 2
C13_Witness ==
    /\ Answered({"left"})
    /\ Cur.id = A01
    /\ \E st \in Navigable : st.id[1] = "B" /\ st.num = 2
    /\ \A st \in Navigable : st.id[1] = "A" => st.id = A01
    /\ navResult = <<>>

\* C14: 'right' from unit 1 or unit 72 of a line A..Z gives none.
C14_RightBoundary ==
    (/\ Answered({"right"})
     /\ \E i \in 1..26 : UpperCase[i] = Cur.id[1]
     /\ Cur.num \in {1, 72}) =>
        navResult = <<>>

\* 'right' from R72 is none although R73 is navigable
C14_Witness ==
    /\ Answered({"right"})
    /\ Cur.id = <<"R", "7", "2">>
    /\ \E st \in Navigable : st.id = <<"R", "7", "3">>
    /\ navResult = <<>>

-----------------------------------------------------------------------------
(* Claims on the modal's nav controls                                      *)

\* the stall the modal shows
Shown == CHOOSE st \in Range(allStalls) : st.id = modalStallId[1]

\* the navigable stalls of the shown stall's line with a unit number in lo..hi
SameLine(lo, hi) ==
    {st \in Navigable : st.id # <<>> /\ st.id[1] = Shown.id[1] /\ st.num \in lo..hi}

\* the control is enabled and targets the stall of S with the unit number pick
Targets(b, S, pick) ==
    /\ ~b.disabled
    /\ \E st \in S : st.id = b.targetId /\ st.num = pick

Least(S) == CHOOSE n \in {st.num : st \in S} : \A st \in S : n <= st.num

Greatest(S) == CHOOSE n \in {st.num : st \in S} : \A st \in S : n >= st.num

\* the control is what openModal makes of a getAdjacentStallId result
CrossLine(b, dir) == b = NavButton(getAdjacentStallId(Shown, navigable, dir))

\* the claim as stated: any same-line navigable stall further up (down) counts
C12_AsStated ==
    Shown.id[1] \in VerticalLines =>
        /\ IF SameLine(Shown.num + 1, Shown.num + 100) # {}
           THEN Targets(modalNav.up, SameLine(Shown.num + 1, Shown.num + 100),
                        Least(SameLine(Shown.num + 1, Shown.num + 100)))
           ELSE CrossLine(modalNav.up, "up")
        /\ IF SameLine(Shown.num - 100, Shown.num - 1) # {}
           THEN Targets(modalNav.down, SameLine(Shown.num - 100, Shown.num - 1),
                        Greatest(SameLine(Shown.num - 100, Shown.num - 1)))
           ELSE CrossLine(modalNav.down, "down")

\* C12 as stated, violated: after openModal on a vertical-line stall, Up targets
\* the navigable stall of the line with the smallest unit number above the
\* current one and Down the one with the largest unit number below it, and the
\* cross-line result is used only when the line has no such stall.
C12_Original == navPc = "shown" => C12_AsStated

\* with the ends of the modal's walk: units up to 34 for Up, from 1 for Down
C12_Bounded ==
    Shown.id[1] \in VerticalLines =>
        /\ IF SameLine(Shown.num + 1, 34) # {}
           THEN Targets(modalNav.up, SameLine(Shown.num + 1, 34),
                        Least(SameLine(Shown.num + 1, 34)))
           ELSE CrossLine(modalNav.up, "up")
        /\ IF SameLine(1, Shown.num - 1) # {}
           THEN Targets(modalNav.down, SameLine(1, Shown.num - 1),
                        Greatest(SameLine(1, Shown.num - 1)))
           ELSE CrossLine(modalNav.down, "down")

\* C12: after openModal on a vertical-line stall, Up targets the navigable
\* stall of the same line with the smallest unit number above the current one
\* among the units up to 34, and Down the one with the largest unit number
\* below the current one among the units from 1; the cross-line result of
\* getAdjacentStallId is the control exactly when there is no such stall.
C12_VerticalUpDown == navPc = "shown" => C12_Bounded

\* the modal on Hou01 with Hou35 and Ji02 navigable: Hou35 is beyond the walk,
\* so Up carries the cross-line result
C12_Witness ==
    /\ navPc = "shown"
    /\ modalStallId = <<<<Hou>> \o Pad2(1)>>
    /\ \E st \in Navigable : st.id = <<Hou>> \o Pad2(35)
    /\ \E st \in Navigable : st.id = <<Ji>> \o Pad2(2)
    /\ SameLine(2, 34) = {}
    /\ ~modalNav.up.disabled
    /\ modalNav.up.targetId = <<Ji>> \o Pad2(2)
    /\ modalNav.down.disabled

\* the lines the template table flags isGrouped
GroupedLines == {locateStalls[l].id : l \in {k \in 1..Len(locateStalls) : locateStalls[k].isGrouped}}

\* the control is enabled and targets a unit of a grouped line other than the
\* shown stall's
EntersGrouped(b) ==
    /\ ~b.disabled
    /\ b.targetId # <<>>
    /\ b.targetId[1] \in GroupedLines
    /\ b.targetId[1] # Shown.id[1]

\* C15 as stated, violated: no nav control computed for a stall targets a unit
\* of a grouped line other than the stall's own.
C15_Original ==
    navPc = "shown" =>
        \A b \in {modalNav.up, modalNav.down, modalNav.left, modalNav.right} : ~EntersGrouped(b)

\* C15: the Left and Right controls computed for a stall target only navigable
\* stalls of the stall's own line, so never a unit of another grouped line; a
\* control that targets a unit of another grouped line is the Up or the Down
\* control.
C15_LeftRightOwnLine ==
    navPc = "shown" =>
        \A b \in {modalNav.left, modalNav.right} :
            /\ ~EntersGrouped(b)
            /\ ~b.disabled =>
                   /\ b.targetId[1] = Shown.id[1]
                   /\ \E st \in Navigable : st.id = b.targetId

\* the modal on Yang05 with Yang09 and Shang01 navigable: Left stays on the
\* line, Up enters the grouped line Shang by its unit 01
C15_Witness ==
    /\ navPc = "shown"
    /\ modalStallId = <<<<Yang>> \o Pad2(5)>>
    /\ Shang \in GroupedLines
    /\ ~modalNav.left.disabled
    /\ modalNav.left.targetId = <<Yang>> \o Pad2(9)
    /\ EntersGrouped(modalNav.up)
    /\ modalNav.up.targetId = <<Shang>> \o Pad2(1)

-----------------------------------------------------------------------------
(* Claims on the rows processStalls skips and on what later rows change    *)

\* the rows the forEach has passed
Processed == 1..(idx - 1)

\* C16: at every point of processStalls, every stall of the map has a
\* non-empty id that a processed row carries, with a first character present
\* in the template table and a num field that parses; so a row without id and
\* stallId, a row whose line has no template and a row whose num is NaN create
\* no stall, and every stall has a template line and an integer unit number.
C16_SkipsUnresolvable ==
    \A k \in 1..Len(stallsMap) :
        /\ stallsMap[k].id # <<>>
        /\ locateStallMapGet(Substring01(stallsMap[k].id)) # <<>>
        /\ stallsMap[k].num \in Int
        /\ \E i \in Processed :
               /\ RowId(rawData[i]) = stallsMap[k].id
               /\ Resolvable(i)
               /\ ParseInt(rawData[i].num).val = stallsMap[k].num

\* a call done on a row without id, a row of a line without template and a
\* row whose num does not parse: no stall at all
C16_Witness ==
    /\ pc = "done"
    /\ Len(rawData) = 3
    /\ \E i \in 1..3 : RowId(rawData[i]) = <<>>
    /\ \E i \in 1..3 : RowId(rawData[i]) # <<>> /\ locateStallMapGet(Substring01(RowId(rawData[i]))) = <<>>
    /\ \E i \in 1..3 : RowId(rawData[i]) = Gou04 /\ IsNaN(ParseInt(rawData[i].num))
    /\ stallsMap = <<>>

\* stall after differs from stall before by nothing, or by one promotion of
\* the id appended to promoData
SameOrOnePromo(before, after) ==
    \/ after = before
    \/ /\ Len(after.promoData) = Len(before.promoData) + 1
       /\ after.promoData[Len(after.promoData)].stallId = before.id
       /\ after = [before EXCEPT !.promoData = Append(@, after.promoData[Len(after.promoData)])]

\* one forEach step on a map that holds stalls
C17_Step ==
    (pc = "rows" /\ idx' = idx + 1) =>
        /\ Len(stallsMap') >= Len(stallsMap)
        /\ \A k \in 1..Len(stallsMap) :
               /\ SameOrOnePromo(stallsMap[k], stallsMap'[k])
               /\ stallsMap[k].id # RowId(rawData[idx]) => stallsMap'[k] = stallsMap[k]

\* C17: a row processed when the map already holds a stall leaves that
\* stall's id, unit number, span, string rect, numeric rect, title, image and
\* link unchanged, whatever the row carries; a stall of the row's id can gain
\* one promotion at the end of promoData, and nothing else changes.
C17_LaterRowsOnlyPromote == [][C17_Step]_vars

\* the stall A01 made by a row with num 1 and no title, after a later row of
\* A01 with num 40, span 2 and a title: unit 1, span 1, title N/A, two
\* promotions
C17_Witness ==
    /\ idx = 3
    /\ rawData[1] = Row(A01, <<>>, <<"1">>, <<>>, <<"u">>)
    /\ rawData[2].id = A01 /\ rawData[2].num = <<"4", "0">> /\ rawData[2].stallTitle = <<"T">>
    /\ Len(stallsMap) = 1
    /\ stallsMap[1].num = 1 /\ stallsMap[1].stallCnt = 1
    /\ stallsMap[1].stallTitle = <<"N", "/", "A">>
    /\ Len(stallsMap[1].promoData) = 2

\* C18 as stated, violated: every stall of the map has a unit number of at
\* least 1.
C18_PositiveNum == \A k \in 1..Len(stallsMap) : stallsMap[k].num >= 1

\* C19 as stated, violated: every stall of the map has a span of at least 1.
C19_SpanAtLeastOne == \A k \in 1..Len(stallsMap) : stallsMap[k].stallCnt >= 1

-----------------------------------------------------------------------------
(* Claims on the tags of a stall                                           *)

\* the tag list the claim gives for each tag field of TagFields
C20_Segments(field) ==
    CASE field = <<>> -> <<>>
      [] field = <<"x", ";", "y">> -> << <<"x">>, <<"y">> >>
      [] field = <<"y", ";", "z">> -> << <<"y">>, <<"z">> >>
      [] field = <<" ", "x", " ", ";", ";", "y">> -> << <<"x">>, <<"y">> >>
      [] field = <<";">> -> <<>>
      [] field = <<"z", ";", "x", ";", "z">> -> << <<"z">>, <<"x">>, <<"z">> >>

\* the rows of the id that carry a promotion, in input order
C20_PromoRows(id) ==
    LET at == SelectSeq([i \in 1..Len(rawData) |-> i],
                        LAMBDA i : RowId(rawData[i]) = id /\ rawData[i].promoUser # <<>>)
    IN  [j \in 1..Len(at) |-> rawData[at[j]]]

\* position of the first occurrence of x in s
C20_FirstAt(s, x) == CHOOSE i \in 1..Len(s) : s[i] = x /\ \A j \in 1..(i - 1) : s[j] # x

\* t is the ordered deduplication of s
C20_IsDedup(t, s) ==
    /\ Range(t) = Range(s)
    /\ \A i, j \in 1..Len(t) : i < j => C20_FirstAt(s, t[i]) < C20_FirstAt(s, t[j])

\* C20: after processStalls, each promotion's tag list is the non-empty
\* trimmed ';'-separated segments of its row's tag field, and each stall's
\* promoTags holds every tag of its promotions exactly once, ordered by first
\* occurrence in the concatenation of the promotions' tag lists.
C20_TagsDeduplicated ==
    pc = "done" =>
        \A k \in 1..Len(stallsMap) :
            LET stall == stallsMap[k]
                rows == C20_PromoRows(stall.id)
                all == Concat([j \in 1..Len(rows) |-> C20_Segments(rows[j].promoTags)])
            IN  /\ Len(stall.promoData) = Len(rows)
                /\ \A j \in 1..Len(rows) :
                       stall.promoData[j].promoTags = C20_Segments(rows[j].promoTags)
                /\ C20_IsDedup(stall.promoTags, all)

\* promotions with the tag fields "x;y" and "y;z": the stall's tags are x, y, z
C20_Witness ==
    /\ pc = "done"
    /\ \E k \in 1..Len(stallsMap) :
           /\ Len(stallsMap[k].promoData) = 2
           /\ stallsMap[k].promoData[1].promoTags = << <<"x">>, <<"y">> >>
           /\ stallsMap[k].promoData[2].promoTags = << <<"y">>, <<"z">> >>
           /\ stallsMap[k].promoTags = << <<"x">>, <<"y">>, <<"z">> >>

-----------------------------------------------------------------------------
(* Claims on the links of a promotion                                      *)

\* the non-empty trimmed segments of each links field of LinkFields
C21_Segments(field) ==
    CASE field = <<>> -> <<>>
      [] field = <<"a">> -> << <<"a">> >>
      [] field = <<"a", ";", "b">> -> << <<"a">>, <<"b">> >>
      [] field = <<"a", ";", ";", "b">> -> << <<"a">>, <<"b">> >>
      [] field = <<" ", "a", " ", ";", " ", "b", " ">> -> << <<"a">>, <<"b">> >>
      [] field = <<";">> -> <<>>
      [] field = <<"a", ";">> -> << <<"a">> >>

\* the rows of the id that carry a promotion, in input order
C21_PromoRows(id) ==
    LET at == SelectSeq([i \in 1..Len(rawData) |-> i],
                        LAMBDA i : RowId(rawData[i]) = id /\ rawData[i].promoUser # <<>>)
    IN  [j \in 1..Len(at) |-> rawData[at[j]]]

\* C21 as stated, violated: the links of every promotion are one per
\* non-empty trimmed segment of its links field, in order, with that segment
\* as href, and the i-th link has the text author-XuanChuanChe-i.
C21_LinksNumbered ==
    \A k \in 1..Len(stallsMap) :
        LET rows == C21_PromoRows(stallsMap[k].id)
        IN  \A j \in 1..Len(stallsMap[k].promoData) :
                LET links == stallsMap[k].promoData[j].promoLinks
                    segs == C21_Segments(rows[j].promoLinks)
                IN  /\ Len(links) = Len(segs)
                    /\ \A i \in 1..Len(links) :
                           /\ links[i].href = segs[i]
                           /\ links[i].href # <<>>
                           /\ links[i].text =
                                  rows[j].promoUser \o <<"-", Xuan, Chuan, Che>> \o NumToStr(i)

-----------------------------------------------------------------------------
(* Claims on the filter                                                    *)

\* C22: after a filter the navigable stalls are stalls of the input, each
\* equal in every field to the input's, in the input's order and without
\* repetition; with an empty or whitespace-only filter they are the whole
\* input; the input itself is still the result of processStalls.
C22_FilterFrame ==
    navPc = "filtered" =>
        /\ allStalls = stallsMap
        /\ navigable = SelectSeq(allStalls, LAMBDA st : st \in Range(navigable))
        /\ (\A i \in 1..Len(searchTerm) : searchTerm[i] = " ") => navigable = allStalls

\* a whitespace-only filter on three stalls
C22_Witness ==
    /\ navPc = "filtered"
    /\ searchTerm = <<" ", " ">>
    /\ Len(allStalls) = 3
    /\ navigable = allStalls

\* C23 as stated, violated: for a non-blank filter, the match flag of the
\* search input handler for every stall, and the match flag of the modal's
\* vertical stall list for every stall of a vertical line, is true exactly
\* when the stall is among the navigable stalls.
C23_HighlightAgrees ==
    (navPc = "filtered" /\ Trim(ToLowerCase(searchTerm)) # <<>>) =>
        \A st \in Range(allStalls) :
            /\ SearchInputIsMatch(st, searchTerm) <=> st \in Range(navigable)
            /\ IsVerticalModalRow(Substring01(st.id)) =>
                   (VerticalListIsMatch(st, searchTerm) <=> st \in Range(navigable))

-----------------------------------------------------------------------------
(* Claims on repeated and reordered calls of processStalls                 *)

C25_Orders ==
    {q \in [1..Len(rawData) -> 1..Len(rawData)] :
        \A i, j \in 1..Len(rawData) : i # j => q[i] # q[j]}

\* id, unit number, span and rects of the stalls of a result
C25_Placed(stalls) ==
    {[id |-> stalls[k].id, num |-> stalls[k].num, stallCnt |-> stalls[k].stallCnt,
      coords |-> stalls[k].coords, numericCoords |-> stalls[k].numericCoords] :
        k \in 1..Len(stalls)}

\* C25 as stated, violated: processStalls on any reordering of the rows
\* returns the same set of stall ids, each with the same unit number, span and
\* rect.
C25_OrderIndependent ==
    pc = "done" =>
        \A q \in C25_Orders :
            C25_Placed(processStalls([i \in 1..Len(rawData) |-> rawData[q[i]]]))
                = C25_Placed(stallsMap)

-----------------------------------------------------------------------------
(* Claims on the magnifier across the modal                                *)

\* one step of the modal and the magnifier
C30_Step ==
    /\ ~modalHidden' => ~isShownState'
    /\ (modalHidden /\ ~modalHidden') => wasMagnifierVisible' = isShownState
    /\ (~modalHidden /\ ~modalHidden') => wasMagnifierVisible' = wasMagnifierVisible
    /\ (~modalHidden /\ modalHidden') => isShownState' = wasMagnifierVisible

\* C30: with no toggle of the magnifier while the modal is open, the
\* magnifier is hidden whenever the modal is open; openModal from the closed
\* state records whether the magnifier was shown, openModal inside the open
\* modal keeps that record, and after closeModal the magnifier is shown
\* exactly when it was shown at the opening.
C30_MagnifierRestored == [][C30_Step]_vars

\* the open modal on a stall reached while the magnifier, shown at the
\* opening, is hidden
C30_Witness ==
    /\ ~modalHidden
    /\ wasMagnifierVisible
    /\ ~isShownState
    /\ modalStallId # <<>>
    /\ ~modalNav.left.disabled

-----------------------------------------------------------------------------
(* Claims on repeated left/right navigation                                *)

\* the button the walk presses
WalkButton == IF direction = "left" THEN modalNav.left ELSE modalNav.right

\* the stall that button targets
WalkTarget == CHOOSE st \in Navigable : st.id = WalkButton.targetId

\* C26 as stated, violated: once the modal is open on a horizontal-line stall
\* with every stall eligible, pressing Left again and again (likewise Right)
\* ends with the button disabled.
C26_Original == (modalStallId # <<>>) ~> WalkButton.disabled

\* a step stays on the line; Left moves the unit number up from 1..36 and down
\* from 37..72, Right the reverse; only Left crosses between the halves, and
\* Left from the stall it crossed to leads back
C26_Halfwise ==
    (modalStallId # <<>> /\ ~WalkButton.disabled) =>
        /\ WalkTarget.id[1] = Shown.id[1]
        /\ IF (direction = "left") <=> (Shown.num <= 36)
           THEN WalkTarget.num > Shown.num
           ELSE WalkTarget.num < Shown.num
        /\ ((Shown.num <= 36) # (WalkTarget.num <= 36)) =>
               /\ direction = "left"
               /\ getAdjacentStallId(WalkTarget, navigable, "left") = <<Shown.id>>

\* C26: with every stall eligible and unit numbers in 1..72, each Left step
\* on a horizontal line moves the unit number strictly up from a unit in
\* 1..36 and strictly down from a unit in 37..72, each Right step the reverse;
\* a Right step never leaves the half, and repeated Right ends with the
\* button disabled; a Left step that crosses to the other half is followed by
\* a Left step back to the stall it came from.
C26_LeftBouncesRightEnds ==
    /\ []C26_Halfwise
    /\ (direction = "right" /\ modalStallId # <<>>) ~> WalkButton.disabled

\* Left from A37 targets A03, from where Left targets A37
C26_Witness ==
    /\ direction = "left"
    /\ modalStallId = << <<"A">> \o Pad2(37) >>
    /\ ~modalNav.left.disabled
    /\ modalNav.left.targetId = <<"A">> \o Pad2(3)
    /\ getAdjacentStallId(WalkTarget, navigable, "left") = modalStallId

-----------------------------------------------------------------------------
(* C27: every result of getAdjacentStallId other than none is the id of a   *)
(* stall of the filtered list it was given and is not the id of the current *)
(* stall; for left and right the stall lies on the line of the current      *)
(* stall and has another unit number, for up and down it lies on another    *)
(* line; the query leaves the filtered list as it was, element by element.  *)

C27_ResultInFiltered ==
    (navPc = "answered" /\ navResult # <<>>) =>
        /\ \E st \in Navigable : st.id = navResult[1]
        /\ navResult[1] # Cur.id
        /\ \A st \in Navigable : st.id = navResult[1] =>
               IF direction \in {"left", "right"}
               THEN /\ Substring01(st.id) = Substring01(Cur.id)
                    /\ st.num # Cur.num
               ELSE Substring01(st.id) # Substring01(Cur.id)

C27_ListKept ==
    (navPc = "filtered" /\ navPc' = "answered") => navigable' = navigable

C27_ResultFromFilteredList == []C27_ResultInFiltered /\ [][C27_ListKept]_vars

\* an upward query answered from a filtered list that leaves stalls out
C27_Witness ==
    /\ navPc = "answered"
    /\ direction = "up"
    /\ navResult # <<>>
    /\ Len(navigable) < Len(allStalls)
    /\ Len(navigable) >= 2

-----------------------------------------------------------------------------
(* C28 as stated, violated: every line of the template table stands exactly *)
(* once in the up/down line order and every line of the order has a         *)
(* template, so every stall of the map has a position in the order and,     *)
(* with a stall of another line in the filtered list, reaches a stall by up *)
(* or by down.                                                              *)

C28_LineOf(st) == Substring01(st.id)

\* a query up or down with a stall of another line in the filtered list
\* finds a stall in one of the two directions
C28_QueryFindsALine ==
    (/\ Answered({"up", "down"})
     /\ \E st \in Navigable : C28_LineOf(st) # C28_LineOf(Cur)) =>
        \/ getAdjacentStallId(Cur, navigable, "up") # <<>>
        \/ getAdjacentStallId(Cur, navigable, "down") # <<>>

C28_EveryLineInOrder ==
    /\ \A i, j \in 1..Len(allRowIds) : allRowIds[i] = allRowIds[j] => i = j
    /\ \A i \in 1..Len(allRowIds) :
           \E l \in 1..Len(locateStalls) : locateStalls[l].id = allRowIds[i]
    /\ \A st \in Range(allStalls) : RowIndexOf(C28_LineOf(st)) # 0 - 1
    /\ C28_QueryFindsALine

-----------------------------------------------------------------------------
(* C29 as stated, violated: for every horizontal line A..Z and the eight    *)
(* zodiac lines of the template table and every unit number 1..72 with span *)
(* 1, the rect of the stall, in the numbers the program computes, lies      *)
(* inside the bounds of its line: bounds.left <= left,                      *)
(* left + width <= bounds.right, bounds.top <= top and                      *)
(* top + height <= bounds.bottom.                                           *)

C29_Lines ==
    {"A", "B", "C", "D", "E", "F", "G", "H", "I", "J", "K", "L", "M",
     "N", "O", "P", "Q", "R", "S", "T", "U", "V", "W", "X", "Y", "Z",
     Shu, Niu, Hu, Tu, Long, She, Ma, Yang}

\* the rect of a stall as doubles
C29_Rect(s) == HorizontalCoords64(locateStalls[AnchorOf(s)].coords, s.num, s.stallCnt)

C29_Inside(rect, bounds) ==
    /\ BigLeq(Num64(bounds.left), rect.left)
    /\ BigLeq(Add64(rect.left, rect.width), Num64(bounds.right))
    /\ BigLeq(Num64(bounds.top), rect.top)
    /\ BigLeq(Add64(rect.top, rect.height), Num64(bounds.bottom))

C29_RectInsideBounds ==
    \A k \in 1..Len(stallsMap) :
        LET s == stallsMap[k]
        IN  (s.id[1] \in C29_Lines /\ s.stallCnt = 1 /\ s.num \in 1..72) =>
                C29_Inside(C29_Rect(s), locateStalls[AnchorOf(s)].border)

\* the same in the decimal numbers of the template table: what holds
C29_InsideDecimal ==
    \A k \in 1..Len(stallsMap) :
        LET s == stallsMap[k]
            bounds == locateStalls[AnchorOf(s)].border
            rect == s.numericCoords
        IN  (s.id[1] \in C29_Lines /\ s.stallCnt = 1 /\ s.num \in 1..72) =>
                /\ bounds.left <= rect.left
                /\ rect.left + rect.width <= bounds.right
                /\ bounds.top <= rect.top
                /\ rect.top + rect.height <= bounds.bottom

=========================================================================
